---------------------------- MODULE Spec2Model ----------------------------
(***************************************************************************)
(* ComfyManage: workflow scanner (services/comfyParser), resource resolver *)
(* (services/geminiService), URL validation and installer-script synthesis *)
(* (components/ScriptPreview), the review list (components/ResourceManager)*)
(* and the application shell with its download history (App.tsx).          *)
(*                                                                         *)
(* Strings are TLA+ strings; TLC evaluates Len, \o, SubSeq, Head and Tail  *)
(* on them, so trimming, lower-casing, prefix/suffix tests and the regular *)
(* expressions of the source are computed character by character.          *)
(***************************************************************************)
EXTENDS Integers, Sequences, FiniteSets, TLC

VARIABLES
    \* App.tsx
    appState,               \* AppState
    resources,              \* EnrichedResource[]
    metadata,               \* WorkflowMetadata | null
    errorMsg,
    showScriptModal,
    showHistoryModal,
    history,                \* HistoryItem[], newest first
    stored,                 \* localStorage['comfy_resource_history'], or Absent
    loads,                  \* the invocations of handleFileLoaded and pending file reads
    uuids,                  \* number of crypto.randomUUID() values handed out
    \* components/ScriptPreview
    format,
    confirmed,
    showValidationWarning,
    \* components/ResourceManager
    draggedItemIndex,
    dragOverItemIndex,
    \* counters that bound a behaviour
    edits,
    commits,
    \* harnesses of the pure functions
    doc,          \* scanner harness: the parsed input document
    scanned,      \* scanner harness: result of parseWorkflowData, or NotRun
    vUrl,         \* validation harness: the URL under test
    vType,        \* validation harness: the resource type under test
    verdict,      \* validation harness: result of isDirectDownloadUrl, or NotRun
    mChunk,       \* merge harness: the scanned items of one batch
    mReply,       \* merge harness: the collaborator's reply for the batch
    merged,       \* merge harness: the resources of the batch, or NotRun
    sResources,   \* script harness: the resource list handed to ScriptPreview
    sFormat,      \* script harness: the dialect
    script,       \* script harness: result of generateScript, or NotRun
    repo,         \* run harness: the manifests every cloned repository contains
    fs,           \* run harness: the files under the ComfyUI root folder
    sh,           \* run harness: the shell that runs the emitted script
    gUrl,         \* folder harness: the downloadUrl of a CustomNode
    gFolder       \* folder harness: result of getRepoFolderName, or NotRun

appVars == <<appState, resources, metadata, errorMsg, showScriptModal, showHistoryModal,
             history, stored, loads, uuids, format, confirmed, showValidationWarning,
             draggedItemIndex, dragOverItemIndex, edits, commits>>
scanVars == <<doc, scanned>>
validateVars == <<vUrl, vType, verdict>>
mergeVars == <<mChunk, mReply, merged>>
scriptVars == <<sResources, sFormat, script>>
runVars == <<repo, fs, sh>>
folderVars == <<gUrl, gFolder>>
harnessVars == <<scanVars, validateVars, mergeVars, scriptVars, runVars, folderVars>>
vars == <<appVars, harnessVars>>

NotRun == [status |-> "notrun"]

(***************************************************************************)
(* Bounds of the model.                                                    *)
(***************************************************************************)
MaxNodes == 2          \* node records per generated document
MaxLoads == 2          \* files and samples loaded in one behaviour
MaxEdits == 1          \* review edits (update, delete, reorder) in one behaviour
MaxCommits == 2        \* copy/download commits in one behaviour
MaxScriptLen == 2      \* resources in a list handed to generateScript

(***************************************************************************)
(* String primitives of the JavaScript runtime (ASCII).                    *)
(***************************************************************************)
CharAt(s, i) == SubSeq(s, i, i)

StartsWith(s, p) == Len(s) >= Len(p) /\ SubSeq(s, 1, Len(p)) = p

EndsWith(s, p) == Len(s) >= Len(p) /\ SubSeq(s, Len(s) - Len(p) + 1, Len(s)) = p

Includes(s, p) == \E i \in 1..(Len(s) - Len(p) + 1) : SubSeq(s, i, i + Len(p) - 1) = p

UpperChars == "ABCDEFGHIJKLMNOPQRSTUVWXYZ"
LowerChars == "abcdefghijklmnopqrstuvwxyz"

UpperSet == {CharAt(UpperChars, i) : i \in 1..Len(UpperChars)}
LowerOf ==
    [c \in UpperSet |->
        CharAt(LowerChars, CHOOSE i \in 1..Len(UpperChars) : CharAt(UpperChars, i) = c)]

LowerChar(c) == IF c \in UpperSet THEN LowerOf[c] ELSE c

RECURSIVE ToLowerCase(_)
ToLowerCase(s) == IF s = "" THEN "" ELSE LowerChar(Head(s)) \o ToLowerCase(Tail(s))

WhiteSpace == {" ", "\t", "\n", "\r"}

RECURSIVE TrimStart(_)
TrimStart(s) == IF s # "" /\ Head(s) \in WhiteSpace THEN TrimStart(Tail(s)) ELSE s

RECURSIVE TrimEnd(_)
TrimEnd(s) ==
    IF s # "" /\ CharAt(s, Len(s)) \in WhiteSpace
    THEN TrimEnd(SubSeq(s, 1, Len(s) - 1))
    ELSE s

Trim(s) == TrimEnd(TrimStart(s))

\* s.indexOf(sub) + 1: the position of the first occurrence, 0 when none
IndexOf(s, sub) ==
    LET at == {i \in 1..(Len(s) - Len(sub) + 1) : SubSeq(s, i, i + Len(sub) - 1) = sub}
    IN IF at = {} THEN 0 ELSE CHOOSE i \in at : \A j \in at : i <= j

\* s.lastIndexOf(sub) + 1
LastIndexOf(s, sub) ==
    LET at == {i \in 1..(Len(s) - Len(sub) + 1) : SubSeq(s, i, i + Len(sub) - 1) = sub}
    IN IF at = {} THEN 0 ELSE CHOOSE i \in at : \A j \in at : i >= j

\* s.slice(from - 1): the rest of s from position `from`
From(s, from) == SubSeq(s, from, Len(s))

\* s.replace(/c/g, by) for a one-character c
RECURSIVE ReplaceAll(_, _, _)
ReplaceAll(s, c, by) ==
    IF s = "" THEN ""
    ELSE (IF Head(s) = c THEN by ELSE Head(s)) \o ReplaceAll(Tail(s), c, by)

(***************************************************************************)
(* JSON values as JSON.parse returns them.  An object is the sequence of   *)
(* its properties in for-in enumeration order.  Invalid stands for a text  *)
(* that JSON.parse rejects with a SyntaxError.                             *)
(***************************************************************************)
JNull == [t |-> "null", v |-> <<>>]
JStr(s) == [t |-> "string", v |-> s]
JNum(n) == [t |-> "number", v |-> n]
JArr(elems) == [t |-> "array", v |-> elems]
JObj(props) == [t |-> "object", v |-> props]
Prop(k, val) == [k |-> k, val |-> val]
Invalid == [t |-> "invalid", v |-> <<>>]
Undefined == [t |-> "undefined", v |-> <<>>]

\* obj[key]: reading a property of null throws; primitives and arrays have
\* none of the property names the scanner reads.
HasProp(j, key) == j.t = "object" /\ \E i \in 1..Len(j.v) : j.v[i].k = key
Get(j, key) ==
    IF HasProp(j, key)
    THEN j.v[CHOOSE i \in 1..Len(j.v) : j.v[i].k = key].val
    ELSE Undefined

\* JavaScript truthiness
Truthy(j) ==
    CASE j.t = "undefined" -> FALSE
      [] j.t = "null" -> FALSE
      [] j.t = "string" -> j.v # ""
      [] j.t = "number" -> j.v # 0
      [] OTHER -> TRUE

\* the values visited by `for (const key in x) x[key]` / `x.forEach`

ForInEntries(j) ==
    CASE j.t = "object" -> j.v
      [] j.t = "array" -> [i \in 1..Len(j.v) |-> Prop("index", j.v[i])]
      [] j.t = "string" -> [i \in 1..Len(j.v) |-> Prop("index", JStr(CharAt(j.v, i)))]
      [] OTHER -> <<>>

(***************************************************************************)
(* services/comfyParser: parseWorkflowData                                 *)
(***************************************************************************)
CORE_NODES ==
    {"KSampler", "CheckpointLoaderSimple", "CLIPTextEncode", "VAEDecode",
     "EmptyLatentImage", "SaveImage", "PreviewImage", "LoadImage", "Note",
     "PrimitiveNode", "Reroute", "LoraLoader", "VAELoader", "ControlNetLoader",
     "UpscaleModelLoader", "Group"}

isCoreNode(type) == type \in CORE_NODES \/ StartsWith(type, "ComfyUI")

fileKeys ==
    {"ckpt_name", "lora_name", "vae_name", "control_net_name",
     "upscale_model_name", "model_name", "embedding", "image"}

\* The Map `items` is the sequence of its values in insertion order; every
\* crypto.randomUUID() is a fresh number above uuid0.
HasName(items, name) == \E i \in 1..Len(items) : items[i].rawName = name

\* mutant: the Map is probed with the untrimmed name
addItem_UntrimmedKey(items, name, isNode, uuid0) ==
    IF name = "" THEN items
    ELSE IF ~HasName(items, name)
         THEN Append(items, [id |-> uuid0 + Len(items) + 1,
                             rawName |-> Trim(name),
                             isNode |-> isNode])
         ELSE items

\* addItem where a later occurrence of a name overwrites the stored flag
addItem_LastWins(items, name, isNode, uuid0) ==
    IF name = "" THEN items
    ELSE LET cleanName == Trim(name) IN
         IF ~HasName(items, cleanName)
         THEN Append(items, [id |-> uuid0 + Len(items) + 1,
                             rawName |-> cleanName,
                             isNode |-> isNode])
         ELSE [k \in 1..Len(items) |->
                  IF items[k].rawName = cleanName
                  THEN [items[k] EXCEPT !.isNode = isNode]
                  ELSE items[k]]

addItem(items, name, isNode, uuid0) ==
    IF name = "" THEN items
    ELSE LET cleanName == Trim(name) IN
         IF ~HasName(items, cleanName)
         THEN Append(items, [id |-> uuid0 + Len(items) + 1,
                             rawName |-> cleanName,
                             isNode |-> isNode])
         ELSE items

\* IsCandidateInput taking every string value for a file
IsCandidateInput_AnyString(key, value) == TRUE

\* mutant: only the well-known keys select a value
IsCandidateInput_KeysOnly(key, value) == key \in fileKeys

IsCandidateInput(key, value) ==
    LET lowerVal == ToLowerCase(value) IN
    \/ key \in fileKeys
    \/ EndsWith(lowerVal, ".safetensors")
    \/ EndsWith(lowerVal, ".ckpt")
    \/ EndsWith(lowerVal, ".pt")
    \/ EndsWith(lowerVal, ".pth")

RECURSIVE processEntries(_, _, _)
processEntries(items, entries, uuid0) ==
    IF entries = <<>> THEN items
    ELSE LET e == Head(entries)
             next == IF e.val.t = "string" /\ IsCandidateInput(e.k, e.val.v)
                     THEN addItem(items, e.val.v, FALSE, uuid0)
                     ELSE items
         IN processEntries(next, Tail(entries), uuid0)

processInputs(items, inputs, uuid0) ==
    IF ~Truthy(inputs) THEN items
    ELSE processEntries(items, ForInEntries(inputs), uuid0)

IsCandidateWidget(val) ==
    LET lowerVal == ToLowerCase(val) IN
    EndsWith(lowerVal, ".safetensors") \/ EndsWith(lowerVal, ".ckpt")

RECURSIVE processWidgets(_, _, _)
processWidgets(items, vals, uuid0) ==
    IF vals = <<>> THEN items
    ELSE LET val == Head(vals)
             next == IF val.t = "string" /\ IsCandidateWidget(val.v)
                     THEN addItem(items, val.v, FALSE, uuid0)
                     ELSE items
         IN processWidgets(next, Tail(vals), uuid0)

\* A scan in progress: the items so far, and whether a TypeError was thrown.
Thrown(items) == [items |-> items, thrown |-> TRUE]
Going(items) == [items |-> items, thrown |-> FALSE]

\* `node.<typeKey> && !isCoreNode(node.<typeKey>)` then addItem(.., true):
\* reading a property of null throws, and so does isCoreNode on a truthy
\* value that is not a string (it has no startsWith).
scanNodeType(items, node, typeKey, uuid0) ==
    IF node.t \in {"null", "undefined"} THEN Thrown(items)
    ELSE LET ty == Get(node, typeKey) IN
         IF ~Truthy(ty) THEN Going(items)
         ELSE IF ty.t # "string" THEN Thrown(items)
         ELSE IF isCoreNode(ty.v) THEN Going(items)
         ELSE Going(addItem(items, ty.v, TRUE, uuid0))

scanSavedNode(items, node, uuid0) ==
    LET a == scanNodeType(items, node, "type", uuid0) IN
    IF a.thrown THEN a
    ELSE LET wv == Get(node, "widgets_values") IN
         IF wv.t = "array" THEN Going(processWidgets(a.items, wv.v, uuid0)) ELSE a

scanApiNode(items, node, uuid0) ==
    LET a == scanNodeType(items, node, "class_type", uuid0) IN
    IF a.thrown THEN a
    ELSE Going(processInputs(a.items, Get(node, "inputs"), uuid0))

RECURSIVE scanNodes(_, _, _, _)
scanNodes(items, nodes, saved, uuid0) ==
    IF nodes = <<>> THEN Going(items)
    ELSE LET a == IF saved THEN scanSavedNode(items, Head(nodes), uuid0)
                  ELSE scanApiNode(items, Head(nodes), uuid0)
         IN IF a.thrown THEN a ELSE scanNodes(a.items, Tail(nodes), saved, uuid0)

IsSavedFormat(data) == Get(data, "nodes").t = "array"

\* parseWorkflowData taking a text that is not JSON for an empty workflow
parseWorkflowData_Lenient(json, uuid0) ==
    IF json.t = "invalid"
    THEN [status |-> "ok", message |-> "", items |-> <<>>]
    ELSE IF json.t = "null"
    THEN [status |-> "error", message |-> "TypeError", items |-> <<>>]
    ELSE LET nodes == IF IsSavedFormat(json)
                      THEN Get(json, "nodes").v
                      ELSE [i \in 1..Len(ForInEntries(json)) |-> ForInEntries(json)[i].val]
             r == scanNodes(<<>>, nodes, IsSavedFormat(json), uuid0)
         IN IF r.thrown
            THEN [status |-> "error", message |-> "TypeError", items |-> <<>>]
            ELSE [status |-> "ok", message |-> "", items |-> r.items]

parseWorkflowData(json, uuid0) ==
    IF json.t = "invalid"
    THEN [status |-> "error", message |-> "Invalid JSON format", items |-> <<>>]
    ELSE IF json.t = "null"
    THEN [status |-> "error", message |-> "TypeError", items |-> <<>>]
    ELSE LET nodes == IF IsSavedFormat(json)
                      THEN Get(json, "nodes").v
                      ELSE [i \in 1..Len(ForInEntries(json)) |-> ForInEntries(json)[i].val]
             r == scanNodes(<<>>, nodes, IsSavedFormat(json), uuid0)
         IN IF r.thrown
            THEN [status |-> "error", message |-> "TypeError", items |-> <<>>]
            ELSE [status |-> "ok", message |-> "", items |-> r.items]

(***************************************************************************)
(* types.ts: ResourceType                                                  *)
(***************************************************************************)
CHECKPOINT == "CHECKPOINT"
LORA == "LORA"
VAE == "VAE"
EMBEDDING == "EMBEDDING"
CONTROLNET == "CONTROLNET"
UPSCALER == "UPSCALER"
CUSTOM_NODE == "CUSTOM_NODE"
UNKNOWN == "UNKNOWN"

ResourceType ==
    {CHECKPOINT, LORA, VAE, EMBEDDING, CONTROLNET, UPSCALER, CUSTOM_NODE, UNKNOWN}

(***************************************************************************)
(* components/ScriptPreview: isDirectDownloadUrl                           *)
(***************************************************************************)
Valid == [isValid |-> TRUE, reason |-> ""]
InvalidUrl(reason) == [isValid |-> FALSE, reason |-> reason]

commonModelHosts == {"civitai.com", "huggingface.co", "files.catbox.moe"}

\* /\.(safetensors|ckpt|pt|pth|bin)$/i
ModelExtensions == {".safetensors", ".ckpt", ".pt", ".pth", ".bin"}
HasModelExtension(s) == \E x \in ModelExtensions : EndsWith(ToLowerCase(s), x)

\* mutant: the protocol is checked before the fallback indicators
isDirectDownloadUrl_ProtocolFirst(url, type) ==
    LET lowerUrl == ToLowerCase(url) IN
    IF url = "" \/ Len(url) < 5
    THEN InvalidUrl("URL is empty or too short.")
    ELSE IF ~StartsWith(lowerUrl, "http://") /\ ~StartsWith(lowerUrl, "https://")
    THEN IF type = CUSTOM_NODE /\ StartsWith(lowerUrl, "git@") /\ Includes(lowerUrl, "github.com")
         THEN Valid
         ELSE InvalidUrl("URL does not start with http(s):// or is not a recognized GitHub SSH URL.")
    ELSE IF type = CUSTOM_NODE
    THEN IF ~Includes(lowerUrl, "github.com")
         THEN InvalidUrl("Custom Node URL should be a GitHub repository.")
         ELSE Valid
    ELSE IF (~\E host \in commonModelHosts : Includes(lowerUrl, host))
            /\ ~HasModelExtension(lowerUrl)
    THEN InvalidUrl("Model URL might not be a direct download or recognized hosting platform.")
    ELSE Valid

isDirectDownloadUrl(url, type) ==
    LET lowerUrl == ToLowerCase(url) IN
    IF url = "" \/ Len(url) < 5
    THEN InvalidUrl("URL is empty or too short.")
    ELSE IF StartsWith(lowerUrl, "search:")
    THEN InvalidUrl("This is a search query, not a direct download link.")
    ELSE IF StartsWith(lowerUrl, "page:")
    THEN InvalidUrl("This is a general page, not a direct download link.")
    ELSE IF ~StartsWith(lowerUrl, "http://") /\ ~StartsWith(lowerUrl, "https://")
    THEN IF type = CUSTOM_NODE /\ StartsWith(lowerUrl, "git@") /\ Includes(lowerUrl, "github.com")
         THEN Valid
         ELSE InvalidUrl("URL does not start with http(s):// or is not a recognized GitHub SSH URL.")
    ELSE IF type = CUSTOM_NODE
    THEN IF ~Includes(lowerUrl, "github.com")
         THEN InvalidUrl("Custom Node URL should be a GitHub repository.")
         ELSE Valid
    ELSE IF (~\E host \in commonModelHosts : Includes(lowerUrl, host))
            /\ ~HasModelExtension(lowerUrl)
    THEN InvalidUrl("Model URL might not be a direct download or recognized hosting platform.")
    ELSE Valid

(***************************************************************************)
(* services/geminiService: analyzeResourcesWithGemini                      *)
(*                                                                         *)
(* A reply of the collaborator is a rejection of the call, a response with *)
(* no text, a text JSON.parse rejects, or the JSON value parsed from the   *)
(* text.  Fields of a resource are strings, "" standing for an absent one; *)
(* confidence is held in hundredths.                                       *)
(***************************************************************************)
BATCH_SIZE == 20

Min(a, b) == IF a < b THEN a ELSE b

\* items.slice(i, i + BATCH_SIZE) for i = 0, BATCH_SIZE, ...
Chunks(items) ==
    [k \in 1..((Len(items) + BATCH_SIZE - 1) \div BATCH_SIZE) |->
        SubSeq(items, (k - 1) * BATCH_SIZE + 1, Min(k * BATCH_SIZE, Len(items)))]

Rejected == [kind |-> "rejected", json |-> JNull]
NoText == [kind |-> "notext", json |-> JNull]
Unparsable == [kind |-> "unparsable", json |-> JNull]
Parsed(json) == [kind |-> "parsed", json |-> json]

Str(j) == IF j.t = "string" THEN j.v ELSE ""

\* chunk.find(c => c.rawName === res.rawName): index of the first match, or 0
FindOriginal(chunk, rawName) ==
    IF rawName.t = "string" /\ \E i \in 1..Len(chunk) : chunk[i].rawName = rawName.v
    THEN CHOOSE i \in 1..Len(chunk) :
            /\ chunk[i].rawName = rawName.v
            /\ \A j \in 1..(i - 1) : chunk[j].rawName # rawName.v
    ELSE 0

DefaultComputeType(type) == IF type = CUSTOM_NODE THEN "CPU" ELSE "GPU"

\* one element of jsonResponse.map(...); uuid is the value randomUUID yields
MergeGuess(chunk, guess, uuid) ==
    LET o == FindOriginal(chunk, Get(guess, "rawName")) IN
    [id |-> IF o # 0 THEN chunk[o].id ELSE uuid,
     rawName |-> Str(Get(guess, "rawName")),
     isNode |-> IF o # 0 THEN chunk[o].isNode ELSE FALSE,
     name |-> Str(Get(guess, "name")),
     type |-> Str(Get(guess, "type")),
     description |-> Str(Get(guess, "description")),
     targetPath |-> Str(Get(guess, "targetPath")),
     downloadUrl |-> Str(Get(guess, "downloadUrl")),
     computeType |-> IF Truthy(Get(guess, "computeType"))
                     THEN Str(Get(guess, "computeType"))
                     ELSE DefaultComputeType(Str(Get(guess, "type"))),
     fileSize |-> IF Truthy(Get(guess, "fileSize")) THEN Str(Get(guess, "fileSize")) ELSE "N/A",
     confidence |-> 90]

\* number of randomUUID calls made for the first n guesses
RECURSIVE FreshCount(_, _, _)
FreshCount(chunk, guesses, n) ==
    IF n = 0 THEN 0
    ELSE FreshCount(chunk, guesses, n - 1)
         + (IF FindOriginal(chunk, Get(guesses[n], "rawName")) = 0 THEN 1 ELSE 0)

\* The try block of one chunk: the merged chunk, or nothing when the text
\* does not parse, is not an array, or holds an element without properties.
MergeChunk(chunk, reply, uuid0) ==
    IF reply.kind # "parsed" THEN <<>>
    ELSE IF reply.json.t # "array" THEN <<>>
    ELSE IF \E i \in 1..Len(reply.json.v) : reply.json.v[i].t = "null" THEN <<>>
    ELSE [i \in 1..Len(reply.json.v) |->
            MergeGuess(chunk, reply.json.v[i], uuid0 + FreshCount(chunk, reply.json.v, i))]

MergeChunkFresh(chunk, reply) ==
    IF MergeChunk(chunk, reply, 0) = <<>> THEN 0
    ELSE FreshCount(chunk, reply.json.v, Len(reply.json.v))

(***************************************************************************)
(* components/ScriptPreview: getRepoFolderName.                            *)
(***************************************************************************)
\* ([^/.]+?)(?:\.git)?$ against the text after the last "/": the captured
\* name, "" when the text does not match
RepoCapture(last) ==
    IF last # "" /\ ~Includes(last, ".") THEN last
    ELSE IF /\ Len(last) > 4
            /\ EndsWith(ToLowerCase(last), ".git")
            /\ ~Includes(SubSeq(last, 1, Len(last) - 4), ".")
         THEN SubSeq(last, 1, Len(last) - 4)
         ELSE ""

\* prefix.*?\/([^/.]+?)(?:\.git)?$ with the i flag: some occurrence of one
\* of the prefixes ends before the last "/" of the URL
RepoMatch(url, prefixes) ==
    LET lower == ToLowerCase(url)
        lastSlash == LastIndexOf(url, "/")
    IN IF \E p \in prefixes :
             IndexOf(lower, p) # 0 /\ IndexOf(lower, p) + Len(p) - 1 < lastSlash
       THEN RepoCapture(From(url, lastSlash + 1))
       ELSE ""

SshPrefixes == {"git@github.com:"}
HttpsPrefixes == {"http://github.com/", "https://github.com/",
                  "http://www.github.com/", "https://www.github.com/"}

SchemeChars ==
    {CharAt("abcdefghijklmnopqrstuvwxyz0123456789+-.", i) : i \in 1..39}
SpecialSchemes == {"http", "https", "ftp", "ws", "wss"}

\* the text before the first "?" or "#"
BeforeQuery(s) ==
    LET q == IndexOf(s, "?")
        h == IndexOf(s, "#")
        cut == IF q = 0 THEN h ELSE IF h = 0 THEN q ELSE Min(q, h)
    IN IF cut = 0 THEN s ELSE SubSeq(s, 1, cut - 1)

RECURSIVE DropSlashes(_)
DropSlashes(s) == IF s # "" /\ Head(s) = "/" THEN DropSlashes(Tail(s)) ELSE s

\* new URL(url).pathname for URLs without dot segments, backslashes or
\* characters that get percent-encoded; ok = FALSE where new URL throws
UrlPathname(url) ==
    LET u == Trim(url)
        colon == IndexOf(u, ":")
        scheme == ToLowerCase(SubSeq(u, 1, colon - 1))
        rest == BeforeQuery(From(u, colon + 1))
        authorityOn == DropSlashes(rest)
        slash == IndexOf(authorityOn, "/")
    IN IF \/ colon < 2
          \/ CharAt(scheme, 1) \notin (SchemeChars \ {CharAt("0123456789+-.", i) : i \in 1..13})
          \/ \E i \in 1..Len(scheme) : CharAt(scheme, i) \notin SchemeChars
       THEN [ok |-> FALSE, pathname |-> ""]
       ELSE IF scheme \in SpecialSchemes
       THEN IF authorityOn = "" \/ slash = 1
            THEN [ok |-> FALSE, pathname |-> ""]
            ELSE [ok |-> TRUE,
                  pathname |-> IF slash = 0 THEN "/" ELSE From(authorityOn, slash)]
       ELSE IF StartsWith(rest, "//")
       THEN [ok |-> TRUE,
             pathname |-> IF IndexOf(From(rest, 3), "/") = 0 THEN ""
                          ELSE From(From(rest, 3), IndexOf(From(rest, 3), "/"))]
       ELSE [ok |-> TRUE, pathname |-> rest]

\* the last element of s.split("/"), and of that list without its empty
\* elements ("" when there is none)
LastSegment(s) == From(s, LastIndexOf(s, "/") + 1)

RECURSIVE DropTrailingSlashes(_)
DropTrailingSlashes(s) ==
    IF s # "" /\ CharAt(s, Len(s)) = "/"
    THEN DropTrailingSlashes(SubSeq(s, 1, Len(s) - 1))
    ELSE s

LastNonEmptySegment(s) == LastSegment(DropTrailingSlashes(s))

StripDotGit(name) ==
    IF EndsWith(name, ".git") THEN SubSeq(name, 1, Len(name) - 4) ELSE name

\* OrUnknown without the fallback name
OrUnknown_Keep(name) == name

OrUnknown(name) == IF name = "" THEN "unknown_node" ELSE name

getRepoFolderName(url) ==
    IF RepoMatch(url, SshPrefixes) # "" THEN RepoMatch(url, SshPrefixes)
    ELSE IF RepoMatch(url, HttpsPrefixes) # "" THEN RepoMatch(url, HttpsPrefixes)
    ELSE IF UrlPathname(url).ok
         THEN OrUnknown(StripDotGit(LastNonEmptySegment(UrlPathname(url).pathname)))
         ELSE OrUnknown(StripDotGit(LastSegment(url)))

(***************************************************************************)
(* components/ScriptPreview: generateScript.  The script text is held as   *)
(* the sequence of its lines (the text split at its line feeds).           *)
(***************************************************************************)
\* bashHeader that also echoes the date when the script starts
bashHeader_DatedEcho(timestamp) ==
    << "#!/bin/bash",
       "# ComfyUI Resource Installer - Generated on " \o timestamp,
       "# NOTE: Run this script from your 'ComfyUI' root folder.",
       "# Assumes 'python' and 'pip' are in your PATH (active venv).",
       "",
       "echo \"Starting ComfyUI Resource Download (" \o timestamp \o ")...\"",
       "" >>

bashHeader(timestamp) ==
    << "#!/bin/bash",
       "# ComfyUI Resource Installer - Generated on " \o timestamp,
       "# NOTE: Run this script from your 'ComfyUI' root folder.",
       "# Assumes 'python' and 'pip' are in your PATH (active venv).",
       "",
       "echo \"Starting ComfyUI Resource Download...\"",
       "" >>

bashBlockHead(r) ==
    << "# ----------------------------------------------------------------",
       "# [" \o r.type \o "] " \o r.name >>

\* mutant: the clone guard tests a folder named after the display name
bashCustomNode_GuardOnName(r) ==
    LET repoDir == r.name IN
    << "echo \"Processing Custom Node: " \o r.name \o "...\"",
       "mkdir -p \"custom_nodes\"",
       "cd \"custom_nodes\"",
       "if [ ! -d \"" \o repoDir \o "\" ]; then",
       "  echo \"  Cloning repo '" \o r.downloadUrl \o "'...\"",
       "  git clone \"" \o r.downloadUrl \o "\"",
       "  if [ $? -ne 0 ]; then",
       "    echo \"  ERROR: Git clone failed for " \o r.name \o ". Check URL and internet connection.\"",
       "  else",
       "    echo \"  Clone successful.\"",
       "  fi",
       "else",
       "  echo \"  Folder '" \o repoDir \o "' already exists. Skipping clone.\"",
       "fi",
       "if [ -d \"" \o repoDir \o "\" ]; then",
       "  cd \"" \o repoDir \o "\"",
       "  if [ -f \".gitmodules\" ]; then",
       "    echo \"  Initializing submodules...\"",
       "    git submodule update --init --recursive",
       "    if [ $? -ne 0 ]; then",
       "      echo \"  WARNING: Submodule update failed for " \o r.name \o ".\"",
       "    }",
       "  fi",
       "  if [ -f \"requirements.txt\" ]; then",
       "    echo \"  Installing requirements.txt...\"",
       "    pip install -r requirements.txt",
       "    if [ $? -ne 0 ]; then",
       "      echo \"  WARNING: Pip installation failed for " \o r.name \o " requirements.\"",
       "    fi",
       "  fi",
       "  if [ -f \"install.py\" ]; then",
       "    echo \"  Running install.py...\"",
       "    python install.py",
       "    if [ $? -ne 0 ]; then",
       "      echo \"  WARNING: install.py failed for " \o r.name \o ".\"",
       "    fi",
       "  fi",
       "  cd ..",
       "fi",
       "cd ..",
       "" >>

bashCustomNode(r) ==
    LET repoDir == getRepoFolderName(r.downloadUrl) IN
    << "echo \"Processing Custom Node: " \o r.name \o "...\"",
       "mkdir -p \"custom_nodes\"",
       "cd \"custom_nodes\"",
       "if [ ! -d \"" \o repoDir \o "\" ]; then",
       "  echo \"  Cloning repo '" \o r.downloadUrl \o "'...\"",
       "  git clone \"" \o r.downloadUrl \o "\"",
       "  if [ $? -ne 0 ]; then",
       "    echo \"  ERROR: Git clone failed for " \o r.name \o ". Check URL and internet connection.\"",
       "  else",
       "    echo \"  Clone successful.\"",
       "  fi",
       "else",
       "  echo \"  Folder '" \o repoDir \o "' already exists. Skipping clone.\"",
       "fi",
       "if [ -d \"" \o repoDir \o "\" ]; then",
       "  cd \"" \o repoDir \o "\"",
       "  if [ -f \".gitmodules\" ]; then",
       "    echo \"  Initializing submodules...\"",
       "    git submodule update --init --recursive",
       "    if [ $? -ne 0 ]; then",
       "      echo \"  WARNING: Submodule update failed for " \o r.name \o ".\"",
       "    }",
       "  fi",
       "  if [ -f \"requirements.txt\" ]; then",
       "    echo \"  Installing requirements.txt...\"",
       "    pip install -r requirements.txt",
       "    if [ $? -ne 0 ]; then",
       "      echo \"  WARNING: Pip installation failed for " \o r.name \o " requirements.\"",
       "    fi",
       "  fi",
       "  if [ -f \"install.py\" ]; then",
       "    echo \"  Running install.py...\"",
       "    python install.py",
       "    if [ $? -ne 0 ]; then",
       "      echo \"  WARNING: install.py failed for " \o r.name \o ".\"",
       "    fi",
       "  fi",
       "  cd ..",
       "fi",
       "cd ..",
       "" >>

bashModel(r) ==
    << "echo \"Processing Model: " \o r.name \o "...\"",
       "mkdir -p \"" \o r.targetPath \o "\"",
       "if [ ! -f \"" \o r.targetPath \o "/" \o r.rawName \o "\" ]; then",
       "  echo \"  Downloading '" \o r.downloadUrl \o "' to '" \o r.targetPath \o "/" \o r.rawName \o "'...\"",
       "  wget -c --show-progress -O \"" \o r.targetPath \o "/" \o r.rawName \o "\" \"" \o r.downloadUrl \o "\"",
       "  if [ $? -ne 0 ]; then",
       "    echo \"  ERROR: Download failed for " \o r.name \o " from " \o r.downloadUrl \o "\"",
       "    echo \"  Please check the URL and your network connection, or try downloading manually.\"",
       "  else",
       "    echo \"  Download successful for " \o r.name \o ".\"",
       "  fi",
       "else",
       "  echo \"  File '" \o r.rawName \o "' already exists in '" \o r.targetPath \o "'. Skipping download.\"",
       "fi",
       "" >>

bashFooter ==
    << "echo \"----------------------------------------------------------------\"",
       "echo \"All done! Please restart ComfyUI.\"" >>

batHeader(timestamp) ==
    << "@echo off",
       ":: ComfyUI Resource Installer - Generated on " \o timestamp,
       ":: NOTE: Run this from your 'ComfyUI' root folder.",
       "",
       ":: --- Environment Setup ---",
       "set \"PYTHON_EXE=python\"",
       "set \"PIP_EXE=pip\"",
       "",
       "if exist \"..\\python_embeded\\python.exe\" (",
       "    echo [INFO] Detected ComfyUI Portable Environment.",
       "    set \"PYTHON_EXE=..\\python_embeded\\python.exe\"",
       "    set \"PIP_EXE=..\\python_embeded\\python.exe -m pip\"",
       ") else (",
       "    echo [INFO] Using system Python. Ensure it is in your PATH.",
       ")",
       "",
       "echo Starting ComfyUI Resource Download...",
       "" >>

batBlockHead(r) ==
    << ":: ----------------------------------------------------------------",
       ":: [" \o r.type \o "] " \o r.name >>

batCustomNode(r) ==
    LET repoDir == getRepoFolderName(r.downloadUrl)
        winPath == "custom_nodes" IN
    << "echo Processing Custom Node: " \o r.name \o "...",
       "if not exist \"" \o winPath \o "\" mkdir \"" \o winPath \o "\"",
       "cd \"" \o winPath \o "\"",
       "if not exist \"" \o repoDir \o "\" (",
       "  echo   Cloning repo '" \o r.downloadUrl \o "'...",
       "  git clone \"" \o r.downloadUrl \o "\"",
       "  if %ERRORLEVEL% NEQ 0 (",
       "    echo   ERROR: Git clone failed for " \o r.name \o ". Check URL and internet connection.",
       "  ) else (",
       "    echo   Clone successful.",
       "  )",
       ") else (",
       "  echo   Folder '" \o repoDir \o "' already exists. Skipping clone.",
       ")",
       "if exist \"" \o repoDir \o "\" (",
       "  cd \"" \o repoDir \o "\"",
       "  if exist \".gitmodules\" (",
       "    echo   Initializing submodules...",
       "    git submodule update --init --recursive",
       "    if %ERRORLEVEL% NEQ 0 (",
       "      echo   WARNING: Submodule update failed for " \o r.name \o ".",
       "    )",
       "  )",
       "  if exist \"requirements.txt\" (",
       "    echo   Installing requirements.txt...",
       "    %PIP_EXE% install -r requirements.txt",
       "    if %ERRORLEVEL% NEQ 0 (",
       "      echo   WARNING: Pip installation failed for " \o r.name \o " requirements.",
       "    )",
       "  )",
       "  if exist \"install.py\" (",
       "    echo   Running install.py...",
       "    %PYTHON_EXE% install.py",
       "    if %ERRORLEVEL% NEQ 0 (",
       "      echo   WARNING: install.py failed for " \o r.name \o ".",
       "    )",
       "  )",
       "  cd ..",
       ")",
       "cd ..",
       "" >>

batModel(r) ==
    LET winPath == ReplaceAll(r.targetPath, "/", "\\") IN
    << "echo Processing Model: " \o r.name \o "...",
       "if not exist \"" \o winPath \o "\" mkdir \"" \o winPath \o "\"",
       "if not exist \"" \o winPath \o "\\" \o r.rawName \o "\" (",
       "  echo   Downloading '" \o r.downloadUrl \o "' to '" \o winPath \o "\\" \o r.rawName \o "'...",
       "  powershell -Command \"$ProgressPreference = 'Continue'; try { Invoke-WebRequest -Uri '" \o r.downloadUrl \o "' -OutFile '" \o winPath \o "\\" \o r.rawName \o "' -ErrorAction Stop | Out-Null; Write-Host '  Download successful for " \o r.name \o ".' } catch { Write-Host '  ERROR: Download failed for " \o r.name \o " from " \o r.downloadUrl \o " - $($_.Exception.Message)'; Write-Host '  Please check the URL and your network connection, or try downloading manually.' }\" ",
       ") else (",
       "  echo   File '" \o r.rawName \o "' already exists in '" \o winPath \o "'. Skipping download.",
       ")",
       "" >>

batFooter ==
    << "echo ----------------------------------------------------------------",
       "echo All done! Please restart ComfyUI.",
       "pause" >>

bashBlock(r) ==
    IF r.downloadUrl = "" THEN <<>>
    ELSE bashBlockHead(r)
         \o (IF r.type = CUSTOM_NODE THEN bashCustomNode(r) ELSE bashModel(r))

batBlock(r) ==
    IF r.downloadUrl = "" THEN <<>>
    ELSE batBlockHead(r)
         \o (IF r.type = CUSTOM_NODE THEN batCustomNode(r) ELSE batModel(r))

RECURSIVE Flatten(_)
Flatten(seqs) == IF seqs = <<>> THEN <<>> ELSE Head(seqs) \o Flatten(Tail(seqs))

\* generateScript emitting the CustomNode blocks before the model blocks
generateScript_NodesFirst(rs, fmt, timestamp) ==
    LET IsNode(r) == r.type = CUSTOM_NODE
        IsModel(r) == r.type # CUSTOM_NODE
        sorted == SelectSeq(rs, IsNode) \o SelectSeq(rs, IsModel)
    IN IF fmt = "bash"
       THEN bashHeader(timestamp) \o Flatten([i \in 1..Len(sorted) |-> bashBlock(sorted[i])])
            \o bashFooter
       ELSE batHeader(timestamp) \o Flatten([i \in 1..Len(sorted) |-> batBlock(sorted[i])])
            \o batFooter

\* timestamp: new Date().toISOString().split('T')[0]
generateScript(rs, fmt, timestamp) ==
    IF fmt = "bash"
    THEN bashHeader(timestamp) \o Flatten([i \in 1..Len(rs) |-> bashBlock(rs[i])]) \o bashFooter
    ELSE batHeader(timestamp) \o Flatten([i \in 1..Len(rs) |-> batBlock(rs[i])]) \o batFooter

(***************************************************************************)
(* Each harness below drives one pure function of the source over a set of *)
(* inputs; the variables of the other harnesses stay at rest.              *)
(***************************************************************************)
IDLE == "IDLE"
ANALYZING_LOCAL == "ANALYZING_LOCAL"
ANALYZING_AI == "ANALYZING_AI"
REVIEW == "REVIEW"
ERROR == "ERROR"

Absent == [present |-> FALSE, value |-> <<>>]
Present(v) == [present |-> TRUE, value |-> v]
NoMetadata == [filename |-> "", nodeCount |-> 0]

\* the state after the first render of <App/> with an empty localStorage
AppInit ==
    /\ appState = IDLE
    /\ resources = <<>>
    /\ metadata = NoMetadata
    /\ errorMsg = ""
    /\ showScriptModal = FALSE
    /\ showHistoryModal = FALSE
    /\ history = <<>>
    /\ stored = Absent
    /\ loads = <<>>
    /\ uuids = 0
    /\ format = "bash"
    /\ confirmed = FALSE
    /\ showValidationWarning = TRUE
    /\ draggedItemIndex = 0
    /\ dragOverItemIndex = 0
    /\ edits = 0
    /\ commits = 0

ScanIdle == doc = JNull /\ scanned = NotRun
ValidateIdle == vUrl = "" /\ vType = UNKNOWN /\ verdict = NotRun
MergeIdle == mChunk = <<>> /\ mReply = NoText /\ merged = NotRun
ScriptIdle == sResources = <<>> /\ sFormat = "bash" /\ script = NotRun
NoShell ==
    [state |-> "idle", pc |-> 0, cwd |-> "", status |-> 0, code |-> 0, found |-> {},
     ran |-> {}, runs |-> 0]
EmptyFolder == [dirs |-> {}, files |-> {}, partial |-> {}]
RunIdle == repo = {} /\ fs = EmptyFolder /\ sh = NoShell /\ gUrl = "" /\ gFolder = NotRun

(***************************************************************************)
(* Validation harness: URL strings of every rule's shape, in both letter   *)
(* cases, against every resource type.                                     *)
(***************************************************************************)
UrlSamples ==
    << "", "abc",
       "search: lora for anime style",
       "SEARCH: sdxl refiner",
       "PAGE: https://civitai.com/models",
       "git@github.com:foo/bar.git",
       "git@gitlab.com:foo/bar.git",
       "https://github.com/foo/bar",
       "https://gitlab.com/foo/bar.git",
       "https://example.com/file.zip",
       "https://example.com/m.safetensors",
       "https://civitai.com/api/download/models/1",
       "HTTPS://HuggingFace.co/x/y",
       "ftp://civitai.com/x.ckpt" >>

InitValidate ==
    /\ AppInit
    /\ RunIdle
    /\ ScanIdle
    /\ MergeIdle
    /\ ScriptIdle
    /\ \E i \in 1..Len(UrlSamples) : vUrl = UrlSamples[i]
    /\ vType \in ResourceType
    /\ verdict = NotRun

Validate ==
    /\ verdict = NotRun
    /\ verdict' = isDirectDownloadUrl(vUrl, vType)
    /\ UNCHANGED <<vUrl, vType, appVars, scanVars, mergeVars, scriptVars, runVars, folderVars>>

NextValidate == Validate

SpecValidate == InitValidate /\ [][NextValidate]_vars

(* C5: validate returns the verdict of the first matching rule of the      *)
(* ordered chain (1) too short, (2) search:, (3) page:, (4) not http(s)    *)
(* unless a GitHub SSH remote of a CustomNode, (5) CustomNode needs        *)
(* github.com, (6) a model needs a known host or a model-file extension,   *)
(* (7) valid; every test reads the URL without regard to letter case.      *)
(* The three URLs the specification names get the verdicts it names.       *)
C5_RuleOf(url, type) ==
    LET l == ToLowerCase(url)
        http == StartsWith(l, "http://") \/ StartsWith(l, "https://")
    IN CASE Len(url) < 5 -> 1
         [] Len(url) >= 5 /\ StartsWith(l, "search:") -> 2
         [] Len(url) >= 5 /\ StartsWith(l, "page:") -> 3
         [] Len(url) >= 5 /\ ~StartsWith(l, "search:") /\ ~StartsWith(l, "page:") /\ ~http -> 4
         [] http /\ type = CUSTOM_NODE /\ ~Includes(l, "github.com") -> 5
         [] http /\ type # CUSTOM_NODE
                 /\ ~(\E h \in commonModelHosts : Includes(l, h))
                 /\ ~(\E x \in ModelExtensions : EndsWith(l, x)) -> 6
         [] OTHER -> 7

C5_RuleChain ==
    verdict # NotRun =>
        LET l == ToLowerCase(vUrl)
            rule == C5_RuleOf(vUrl, vType)
        IN /\ rule = 1 => ~verdict.isValid /\ Includes(verdict.reason, "too short")
           /\ rule = 2 => ~verdict.isValid /\ Includes(verdict.reason, "search query")
           /\ rule = 3 => ~verdict.isValid /\ Includes(verdict.reason, "general page")
           /\ rule = 4 =>
                verdict.isValid =
                    (vType = CUSTOM_NODE /\ StartsWith(l, "git@") /\ Includes(l, "github.com"))
           /\ rule = 5 => ~verdict.isValid /\ Includes(verdict.reason, "GitHub repository")
           /\ rule = 6 => ~verdict.isValid /\ Includes(verdict.reason, "hosting platform")
           /\ rule = 7 => verdict.isValid
           /\ vUrl = "search: lora for anime style" =>
                ~verdict.isValid /\ Includes(verdict.reason, "search query")
           /\ (vUrl = "git@github.com:foo/bar.git" /\ vType = CUSTOM_NODE) => verdict.isValid
           /\ (vUrl = "https://example.com/file.zip" /\ vType = CHECKPOINT) => ~verdict.isValid

\* witness: the search-query example has been judged
C5_Witness ==
    /\ vUrl = "search: lora for anime style"
    /\ verdict # NotRun
    /\ ~verdict.isValid


(***************************************************************************)
(* Scanner harness: documents generated from a pool of node records, in    *)
(* both serialisations, plus inputs that are not workflow documents.       *)
(***************************************************************************)
NodePool ==
    << [ty |-> JStr("KSampler"), params |-> <<>>],
       [ty |-> JStr(" KSampler"), params |-> <<>>],
       [ty |-> JStr("ReactorFaceSwap"),
        params |-> <<Prop("model", JStr("a.safetensors"))>>],
       [ty |-> JStr("CheckpointLoaderSimple"),
        params |-> <<Prop("ckpt_name", JStr("v1-5-pruned.ckpt"))>>],
       [ty |-> JStr("a.safetensors"), params |-> <<>>],
       [ty |-> JStr("LoraLoader"),
        params |-> <<Prop("lora_name", JStr(" a.safetensors")),
                     Prop("strength", JNum(1)),
                     Prop("clip", JArr(<<JStr("4"), JNum(1)>>))>>],
       [ty |-> JStr("ComfyUI_Impact"),
        params |-> <<Prop("text", JStr("hello")), Prop("weights", JStr("m.PT"))>>],
       [ty |-> Undefined,
        params |-> <<Prop("image", JStr("ReactorFaceSwap"))>>],
       [ty |-> JStr("UpscaleModelLoader"),
        params |-> <<Prop("model_name", JStr("4x_esrgan.pth"))>>],
       [ty |-> JStr("VAELoader"),
        params |-> <<Prop("vae_name", JStr("")), Prop("image", JStr(" "))>>] >>

TypeProp(key, c) == IF c.ty.t = "undefined" THEN <<>> ELSE <<Prop(key, c.ty)>>

MkSavedNode(c) ==
    JObj(TypeProp("type", c)
         \o <<Prop("widgets_values", JArr([i \in 1..Len(c.params) |-> c.params[i].val]))>>)

MkApiNode(c) == JObj(TypeProp("class_type", c) \o <<Prop("inputs", JObj(c.params))>>)

\* idx: a sequence of indices into NodePool
SavedDoc(idx) ==
    JObj(<<Prop("nodes", JArr([i \in 1..Len(idx) |-> MkSavedNode(NodePool[idx[i]])]))>>)

ApiDoc(idx) == JObj([i \in 1..Len(idx) |-> Prop(ToString(i), MkApiNode(NodePool[idx[i]]))])

NotWorkflows ==
    << Invalid, JNull, JNum(7), JStr("abc"), JArr(<<>>),
       JObj(<<Prop("1", JNull)>>),
       JObj(<<Prop("1", JObj(<<Prop("class_type", JNum(5))>>))>>),
       JObj(<<Prop("nodes", JArr(<<JNull>>))>>) >>

\* {"4":{"class_type":"CheckpointLoaderSimple","inputs":{"ckpt_name":"v1-5-pruned.ckpt"}}}
CheckpointExample == JObj(<<Prop("4", MkApiNode(NodePool[4]))>>)

IndexSeqs == UNION {[1..n -> 1..Len(NodePool)] : n \in 0..MaxNodes}

InitScan ==
    /\ AppInit
    /\ RunIdle
    /\ ValidateIdle
    /\ MergeIdle
    /\ ScriptIdle
    /\ \/ \E idx \in IndexSeqs : doc = SavedDoc(idx) \/ doc = ApiDoc(idx)
       \/ \E i \in 1..Len(NotWorkflows) : doc = NotWorkflows[i]
       \/ doc = CheckpointExample
    /\ scanned = NotRun

Scan ==
    /\ scanned = NotRun
    /\ scanned' = parseWorkflowData(doc, 0)
    /\ UNCHANGED <<doc, appVars, validateVars, mergeVars, scriptVars, runVars, folderVars>>

NextScan == Scan

SpecScan == InitScan /\ [][NextScan]_vars

(***************************************************************************)
(* The replies the collaborator may give for one chunk.                    *)
(***************************************************************************)
Guess(rawName, name, type, targetPath, downloadUrl, computeType, fileSize) ==
    JObj(<<Prop("rawName", JStr(rawName)), Prop("name", JStr(name)),
           Prop("type", JStr(type)), Prop("targetPath", JStr(targetPath)),
           Prop("downloadUrl", JStr(downloadUrl))>>
         \o (IF computeType = "" THEN <<>> ELSE <<Prop("computeType", JStr(computeType))>>)
         \o (IF fileSize = "" THEN <<>> ELSE <<Prop("fileSize", JStr(fileSize))>>))

\* a direct link by kind of item, or the SEARCH: fallback the prompt asks for
DirectGuess(item) ==
    IF item.isNode
    THEN Guess(item.rawName, item.rawName, CUSTOM_NODE, "custom_nodes",
               "https://github.com/foo/bar", "CPU", "50KB")
    ELSE Guess(item.rawName, item.rawName, CHECKPOINT, "models/checkpoints",
               "https://civitai.com/api/download/models/1", "GPU", "2GB")

FallbackGuess(item) ==
    Guess(item.rawName, item.rawName, UNKNOWN, "", "SEARCH: " \o item.rawName, "", "")

ForeignGuess ==
    Guess("hallucinated.safetensors", "Hallucinated", LORA, "models/loras",
          "https://example.com/file.zip", "GPU", "144MB")

Replies(chunk) ==
    LET direct == [i \in 1..Len(chunk) |-> DirectGuess(chunk[i])]
        fallback == [i \in 1..Len(chunk) |-> FallbackGuess(chunk[i])]
    IN << NoText,
          Unparsable,
          Parsed(JArr(direct)),
          Parsed(JArr(fallback)),
          Parsed(JArr(Tail(direct))),                       \* the first item is left out
          Parsed(JArr(<<ForeignGuess>> \o Tail(direct))),   \* a name nobody asked for
          Parsed(JArr(<<direct[1], direct[1]>> \o SubSeq(direct, 3, Len(direct)))),
                                                      \* the first item twice
          Parsed(JArr(<<JNull>>)),
          Parsed(JObj(<<>>)) >>

(***************************************************************************)
(* The workflow documents a user loads: samples of FileUploader and files  *)
(* of the user's own.                                                      *)
(***************************************************************************)
Sample_t2i_v15 ==
    JObj(<< Prop("4", JObj(<<Prop("inputs", JObj(<<Prop("ckpt_name", JStr("v1-5-pruned-emaonly.ckpt"))>>)),
                             Prop("class_type", JStr("CheckpointLoaderSimple"))>>)),
            Prop("5", JObj(<<Prop("inputs", JObj(<<Prop("width", JNum(512)), Prop("height", JNum(512)),
                                                   Prop("batch_size", JNum(1))>>)),
                             Prop("class_type", JStr("EmptyLatentImage"))>>)),
            Prop("6", JObj(<<Prop("inputs", JObj(<<Prop("text", JStr("beautiful scenery nature glass bottle landscape, purple galaxy bottle,")),
                                                   Prop("clip", JArr(<<JStr("4"), JNum(1)>>))>>)),
                             Prop("class_type", JStr("CLIPTextEncode"))>>)),
            Prop("8", JObj(<<Prop("inputs", JObj(<<Prop("samples", JArr(<<JStr("3"), JNum(0)>>)),
                                                   Prop("vae", JArr(<<JStr("4"), JNum(2)>>))>>)),
                             Prop("class_type", JStr("VAEDecode"))>>)) >>)

\* for-in visits the integer-like keys in ascending order: 4, 10, 22, 30
Sample_t2i_sdxl ==
    JObj(<< Prop("4", JObj(<<Prop("inputs", JObj(<<Prop("ckpt_name", JStr("sd_xl_base_1.0.safetensors"))>>)),
                             Prop("class_type", JStr("CheckpointLoaderSimple"))>>)),
            Prop("10", JObj(<<Prop("inputs", JObj(<<Prop("ckpt_name", JStr("sd_xl_refiner_1.0.safetensors"))>>)),
                              Prop("class_type", JStr("CheckpointLoaderSimple"))>>)),
            Prop("22", JObj(<<Prop("inputs", JObj(<<Prop("width", JNum(1024)), Prop("height", JNum(1024))>>)),
                              Prop("class_type", JStr("EmptyLatentImage"))>>)),
            Prop("30", JObj(<<Prop("inputs", JObj(<<>>)), Prop("class_type", JStr("Note")),
                              Prop("content", JStr("SDXL requires 1024x1024 resolution"))>>)) >>)

SAMPLE_WORKFLOWS ==
    << [filename |-> "t2i_v15.json", content |-> Sample_t2i_v15],
       [filename |-> "t2i_sdxl.json", content |-> Sample_t2i_sdxl] >>

UserFiles ==
    << [filename |-> "broken.json", content |-> Invalid],
       [filename |-> "mine.json", content |-> SavedDoc(<<3>>)] >>

(***************************************************************************)
(* Merge harness: one batch of scanned items and one reply to it, through  *)
(* the try block of analyzeResourcesWithGemini.                            *)
(***************************************************************************)
MergeChunks ==
    LET docs == {ApiDoc(idx) : idx \in IndexSeqs} \cup {SavedDoc(idx) : idx \in IndexSeqs}
        oks == {d \in docs : parseWorkflowData(d, 0).status = "ok"}
    IN {parseWorkflowData(d, 0).items : d \in oks} \ {<<>>}

Merged(rs) == [status |-> "merged", resources |-> rs]

InitMerge ==
    /\ AppInit
    /\ RunIdle
    /\ ScanIdle
    /\ ValidateIdle
    /\ ScriptIdle
    /\ mChunk \in MergeChunks
    /\ \E i \in 1..Len(Replies(mChunk)) : mReply = Replies(mChunk)[i]
    /\ merged = NotRun

\* the ids of the batch are the first Len(mChunk) UUIDs handed out
Merge ==
    /\ merged = NotRun
    /\ merged' = Merged(MergeChunk(mChunk, mReply, Len(mChunk)))
    /\ UNCHANGED <<mChunk, mReply, appVars, scanVars, validateVars, scriptVars, runVars, folderVars>>

NextMerge == Merge

SpecMerge == InitMerge /\ [][NextMerge]_vars

(***************************************************************************)
(* Script harness: short resource lists of every kind of block, in both    *)
(* dialects, through generateScript.                                       *)
(***************************************************************************)
Res(id, rawName, name, type, targetPath, downloadUrl) ==
    [id |-> id, rawName |-> rawName, isNode |-> type = CUSTOM_NODE, name |-> name,
     type |-> type, description |-> "", targetPath |-> targetPath,
     downloadUrl |-> downloadUrl, computeType |-> DefaultComputeType(type),
     fileSize |-> "N/A", confidence |-> 90]

ScriptPool ==
    << Res(1, "BarNode", "Bar Nodes", CUSTOM_NODE, "custom_nodes", "https://github.com/foo/bar"),
       Res(2, "BazNode", "Baz Nodes", CUSTOM_NODE, "custom_nodes", "git@github.com:foo/baz.git"),
       Res(3, "QuxNode", "Qux Nodes", CUSTOM_NODE, "custom_nodes", "https://gitlab.com/foo/qux.git/"),
       Res(4, "RelNode", "Rel Nodes", CUSTOM_NODE, "custom_nodes", "foo/rel.git"),
       Res(5, "NoRepo", "No Repo", CUSTOM_NODE, "custom_nodes", "https://github.com/"),
       Res(6, "v1-5.ckpt", "SD 1.5", CHECKPOINT, "models/checkpoints",
           "https://civitai.com/api/download/models/1"),
       Res(7, "a.safetensors", "A", LORA, "models/loras", "SEARCH: a.safetensors"),
       Res(8, "b.pth", "B", UNKNOWN, "models/upscale_models", "") >>

ScriptLists ==
    {[i \in 1..Len(idx) |-> ScriptPool[idx[i]]] :
        idx \in UNION {[1..n -> 1..Len(ScriptPool)] : n \in 0..MaxScriptLen}}

Today == "2025-01-01"

Generated(lines) == [status |-> "generated", lines |-> lines]

InitScript ==
    /\ AppInit
    /\ RunIdle
    /\ ScanIdle
    /\ ValidateIdle
    /\ MergeIdle
    /\ sResources \in ScriptLists
    /\ sFormat \in {"bash", "bat"}
    /\ script = NotRun

Generate ==
    /\ script = NotRun
    /\ script' = Generated(generateScript(sResources, sFormat, Today))
    /\ UNCHANGED <<sResources, sFormat, appVars, scanVars, validateVars, mergeVars, runVars, folderVars>>

NextScript == Generate

SpecScript == InitScript /\ [][NextScript]_vars

(***************************************************************************)
(* App.tsx: handleFileLoaded.  A load is one invocation: pc is "reading"   *)
(* while the FileReader has not fired, "awaiting" while the call for chunk *)
(* `next` is outstanding, "done" afterwards.                               *)
(***************************************************************************)
DoneLoad(filename) ==
    [pc |-> "done", filename |-> filename, content |-> JNull, items |-> <<>>,
     next |-> 0, allEnriched |-> <<>>]

ReadingLoad(file) ==
    [pc |-> "reading", filename |-> file.filename, content |-> file.content, items |-> <<>>,
     next |-> 0, allEnriched |-> <<>>]

AwaitingLoad(filename, items, next, allEnriched) ==
    [pc |-> "awaiting", filename |-> filename, content |-> JNull, items |-> items,
     next |-> next, allEnriched |-> allEnriched]

\* Begin reporting an empty result with the message of a parse error
Begin_SameMessage(ls, l, content, filename) ==
    LET r == parseWorkflowData(content, uuids) IN
    IF r.status = "error"
    THEN /\ appState' = ERROR
         /\ errorMsg' = r.message
         /\ loads' = [ls EXCEPT ![l] = DoneLoad(filename)]
         /\ UNCHANGED <<metadata, uuids>>
    ELSE /\ metadata' = [filename |-> filename, nodeCount |-> Len(r.items)]
         /\ uuids' = uuids + Len(r.items)
         /\ IF Len(r.items) = 0
            THEN /\ appState' = ERROR
                 /\ errorMsg' = "Invalid JSON format"
                 /\ loads' = [ls EXCEPT ![l] = DoneLoad(filename)]
            ELSE /\ appState' = ANALYZING_AI
                 /\ loads' = [ls EXCEPT ![l] = AwaitingLoad(filename, r.items, 1, <<>>)]
                 /\ UNCHANGED errorMsg

\* handleFileLoaded up to its first await, as invocation l of the loads ls
Begin(ls, l, content, filename) ==
    LET r == parseWorkflowData(content, uuids) IN
    IF r.status = "error"
    THEN /\ appState' = ERROR
         /\ errorMsg' = r.message
         /\ loads' = [ls EXCEPT ![l] = DoneLoad(filename)]
         /\ UNCHANGED <<metadata, uuids>>
    ELSE /\ metadata' = [filename |-> filename, nodeCount |-> Len(r.items)]
         /\ uuids' = uuids + Len(r.items)
         /\ IF Len(r.items) = 0
            THEN /\ appState' = ERROR
                 /\ errorMsg' = "No identifiable resources found in this workflow."
                 /\ loads' = [ls EXCEPT ![l] = DoneLoad(filename)]
            ELSE /\ appState' = ANALYZING_AI
                 /\ loads' = [ls EXCEPT ![l] = AwaitingLoad(filename, r.items, 1, <<>>)]
                 /\ UNCHANGED errorMsg

\* both modals are "fixed inset-0 z-[100]" overlays: while one is shown the
\* page below it takes no pointer input
PageReachable == ~showScriptModal /\ ~showHistoryModal

reviewVars == <<showScriptModal, showHistoryModal, history, stored, format, confirmed,
                showValidationWarning, edits, commits>>
dragRefs == <<draggedItemIndex, dragOverItemIndex>>

\* ResourceManager is mounted in REVIEW only: its refs go with it
Unmount == draggedItemIndex' = 0 /\ dragOverItemIndex' = 0

\* a drag in progress holds the pointer until its dragend
NotDragging == draggedItemIndex = 0

\* FileUploader.loadSample: rendered in IDLE only
loadSample(sample) ==
    /\ appState = IDLE
    /\ PageReachable
    /\ Len(loads) < MaxLoads
    /\ Begin(Append(loads, DoneLoad(sample.filename)), Len(loads) + 1,
             sample.content, sample.filename)
    /\ Unmount
    /\ UNCHANGED <<resources, reviewVars, harnessVars>>

\* FileUploader.handleFileChange: starts reader.readAsText(file)
handleFileChange(file) ==
    /\ appState = IDLE
    /\ PageReachable
    /\ Len(loads) < MaxLoads
    /\ loads' = Append(loads, ReadingLoad(file))
    /\ UNCHANGED <<appState, resources, metadata, errorMsg, uuids, reviewVars, dragRefs,
                   harnessVars>>

\* reader.onload: calls onFileLoaded whatever the application shows by now
readerOnload(l) ==
    /\ loads[l].pc = "reading"
    /\ Begin(loads, l, loads[l].content, loads[l].filename)
    /\ Unmount
    /\ UNCHANGED <<resources, reviewVars, harnessVars>>

\* Settle that stores the result of the last batch without leaving the
\* analysing view
Settle_KeepsState(l, reply) ==
    LET ld == loads[l]
        chunks == Chunks(ld.items)
        chunk == chunks[ld.next]
        all == ld.allEnriched \o MergeChunk(chunk, reply, uuids)
    IN /\ uuids' = uuids + MergeChunkFresh(chunk, reply)
       /\ IF ld.next < Len(chunks)
          THEN /\ loads' = [loads EXCEPT ![l] = AwaitingLoad(ld.filename, ld.items, ld.next + 1, all)]
               /\ UNCHANGED <<appState, resources>>
          ELSE /\ loads' = [loads EXCEPT ![l] = DoneLoad(ld.filename)]
               /\ resources' = all
               /\ UNCHANGED appState

\* Settle putting the result of the batch before the results so far
Settle_Prepend(l, reply) ==
    LET ld == loads[l]
        chunks == Chunks(ld.items)
        chunk == chunks[ld.next]
        all == MergeChunk(chunk, reply, uuids) \o ld.allEnriched
    IN /\ uuids' = uuids + MergeChunkFresh(chunk, reply)
       /\ IF ld.next < Len(chunks)
          THEN /\ loads' = [loads EXCEPT ![l] = AwaitingLoad(ld.filename, ld.items, ld.next + 1, all)]
               /\ UNCHANGED <<appState, resources>>
          ELSE /\ loads' = [loads EXCEPT ![l] = DoneLoad(ld.filename)]
               /\ resources' = all
               /\ appState' = REVIEW

\* the awaited generateContent of load l settles with a response
Settle(l, reply) ==
    LET ld == loads[l]
        chunks == Chunks(ld.items)
        chunk == chunks[ld.next]
        all == ld.allEnriched \o MergeChunk(chunk, reply, uuids)
    IN /\ uuids' = uuids + MergeChunkFresh(chunk, reply)
       /\ IF ld.next < Len(chunks)
          THEN /\ loads' = [loads EXCEPT ![l] = AwaitingLoad(ld.filename, ld.items, ld.next + 1, all)]
               /\ UNCHANGED <<appState, resources>>
          ELSE /\ loads' = [loads EXCEPT ![l] = DoneLoad(ld.filename)]
               /\ resources' = all
               /\ appState' = REVIEW

collaboratorResponds(l) ==
    /\ loads[l].pc = "awaiting"
    /\ \E i \in 1..Len(Replies(Chunks(loads[l].items)[loads[l].next])) :
          Settle(l, Replies(Chunks(loads[l].items)[loads[l].next])[i])
    /\ UNCHANGED <<metadata, errorMsg, reviewVars, dragRefs, harnessVars>>

\* the awaited call rejects: the exception leaves analyzeResourcesWithGemini
\* and is caught by handleFileLoaded
collaboratorRejects(l) ==
    /\ loads[l].pc = "awaiting"
    /\ loads' = [loads EXCEPT ![l] = DoneLoad(loads[l].filename)]
    /\ errorMsg' = "generateContent failed"
    /\ appState' = ERROR
    /\ Unmount
    /\ UNCHANGED <<resources, metadata, uuids, reviewVars, harnessVars>>

\* the Try Again button of the ERROR view
tryAgain ==
    /\ appState = ERROR
    /\ PageReachable
    /\ appState' = IDLE
    /\ UNCHANGED <<resources, metadata, errorMsg, loads, uuids, reviewVars, dragRefs,
                   harnessVars>>

(***************************************************************************)
(* components/ResourceManager: the reviewer's edits.  The list is rendered *)
(* in REVIEW only.  Filters and sort order change the view, not the list.  *)
(***************************************************************************)
Ids(rs) == {rs[i].id : i \in 1..Len(rs)}

handleDelete(id) ==
    /\ appState = REVIEW
    /\ PageReachable
    /\ NotDragging
    /\ edits < MaxEdits
    /\ id \in Ids(resources)
    /\ LET Keep(r) == r.id # id IN resources' = SelectSeq(resources, Keep)
    /\ edits' = edits + 1
    /\ UNCHANGED <<appState, metadata, errorMsg, loads, uuids, showScriptModal,
                   showHistoryModal, history, stored, format, confirmed,
                   showValidationWarning, draggedItemIndex, dragOverItemIndex, commits,
                   harnessVars>>

\* values the edit controls of a card write (targetPath and confidence have
\* controls of the same kind)
EditChoices ==
    << [field |-> "type", value |-> CUSTOM_NODE],
       [field |-> "type", value |-> LORA],
       [field |-> "description", value |-> "edited"],
       [field |-> "downloadUrl", value |-> ""],
       [field |-> "downloadUrl", value |-> "https://github.com/foo/bar"] >>

handleUpdate(id, field, value) ==
    /\ appState = REVIEW
    /\ PageReachable
    /\ NotDragging
    /\ edits < MaxEdits
    /\ id \in Ids(resources)
    /\ resources' = [i \in 1..Len(resources) |->
                        IF resources[i].id = id
                        THEN [resources[i] EXCEPT ![field] = value]
                        ELSE resources[i]]
    /\ edits' = edits + 1
    /\ UNCHANGED <<appState, metadata, errorMsg, loads, uuids, showScriptModal,
                   showHistoryModal, history, stored, format, confirmed,
                   showValidationWarning, draggedItemIndex, dragOverItemIndex, commits,
                   harnessVars>>

\* draggedItemIndex / dragOverItemIndex: 0 stands for null, i for index i - 1
handleDragStart(i) ==
    /\ appState = REVIEW
    /\ PageReachable
    /\ NotDragging
    /\ edits < MaxEdits
    /\ i \in 1..Len(resources)
    /\ draggedItemIndex' = i
    /\ UNCHANGED <<appState, resources, metadata, errorMsg, loads, uuids, showScriptModal,
                   showHistoryModal, history, stored, format, confirmed,
                   showValidationWarning, dragOverItemIndex, edits, commits,
                   harnessVars>>

handleDragEnter(i) ==
    /\ appState = REVIEW
    /\ PageReachable
    /\ draggedItemIndex # 0
    /\ i \in 1..Len(resources)
    /\ dragOverItemIndex' = i
    /\ UNCHANGED <<appState, resources, metadata, errorMsg, loads, uuids, showScriptModal,
                   showHistoryModal, history, stored, format, confirmed,
                   showValidationWarning, draggedItemIndex, edits, commits,
                   harnessVars>>

\* newResources.splice(from, 1) then newResources.splice(to, 0, item)
Splice(rs, from, to) ==
    LET without == SubSeq(rs, 1, from - 1) \o SubSeq(rs, from + 1, Len(rs))
        at == Min(to, Len(without) + 1)
    IN SubSeq(without, 1, at - 1) \o <<rs[from]>> \o SubSeq(without, at, Len(without))

\* (a source index that outlived its list makes splice insert undefined, which
\* the list view cannot render: the model stops short of that drop)
handleDrop ==
    /\ appState = REVIEW
    /\ PageReachable
    /\ draggedItemIndex # 0
    /\ draggedItemIndex <= Len(resources)
    /\ IF dragOverItemIndex = 0 \/ draggedItemIndex = dragOverItemIndex
       THEN UNCHANGED <<resources, draggedItemIndex, dragOverItemIndex, edits>>
       ELSE /\ resources' = Splice(resources, draggedItemIndex, dragOverItemIndex)
            /\ draggedItemIndex' = 0
            /\ dragOverItemIndex' = 0
            /\ edits' = edits + 1
    /\ UNCHANGED <<appState, metadata, errorMsg, loads, uuids, showScriptModal,
                   showHistoryModal, history, stored, format, confirmed,
                   showValidationWarning, commits, harnessVars>>

handleDragEnd ==
    /\ draggedItemIndex # 0
    /\ draggedItemIndex' = 0
    /\ dragOverItemIndex' = 0
    /\ UNCHANGED <<appState, resources, metadata, errorMsg, loads, uuids, showScriptModal,
                   showHistoryModal, history, stored, format, confirmed,
                   showValidationWarning, edits, commits, harnessVars>>

(***************************************************************************)
(* components/ScriptPreview and App.tsx: the script modal and the history. *)
(***************************************************************************)
\* the useEffect over resources: the resources whose URL fails validation
validationErrors ==
    LET Bad(r) == ~isDirectDownloadUrl(r.downloadUrl, r.type).isValid IN
    SelectSeq(resources, Bad)

WarningShown == showScriptModal /\ showValidationWarning /\ validationErrors # <<>>
ReviewRequiredShown == showScriptModal /\ ~WarningShown /\ ~confirmed
ScriptShown == showScriptModal /\ ~WarningShown /\ confirmed

\* onGenerateScript: mounts ScriptPreview with its initial state
onGenerateScript ==
    /\ appState = REVIEW
    /\ PageReachable
    /\ NotDragging
    /\ showScriptModal' = TRUE
    /\ format' = "bash"
    /\ confirmed' = FALSE
    /\ showValidationWarning' = TRUE
    /\ UNCHANGED <<appState, resources, metadata, errorMsg, loads, uuids, showHistoryModal,
                   history, stored, draggedItemIndex, dragOverItemIndex, edits, commits,
                   harnessVars>>

\* Go Back and Edit / Go Back / X: ScriptPreview unmounts and its state goes
\* with it (kept here at the values the next mount starts from)
onClose ==
    /\ showScriptModal
    /\ showScriptModal' = FALSE
    /\ format' = "bash"
    /\ confirmed' = FALSE
    /\ showValidationWarning' = TRUE
    /\ UNCHANGED <<appState, resources, metadata, errorMsg, loads, uuids, showHistoryModal,
                   history, stored, draggedItemIndex, dragOverItemIndex, edits, commits,
                   harnessVars>>

proceedAnyway ==
    /\ WarningShown
    /\ showValidationWarning' = FALSE
    /\ UNCHANGED <<appState, resources, metadata, errorMsg, loads, uuids, showScriptModal,
                   showHistoryModal, history, stored, format, confirmed,
                   draggedItemIndex, dragOverItemIndex, edits, commits,
                   harnessVars>>

iHaveReviewed ==
    /\ ReviewRequiredShown
    /\ confirmed' = TRUE
    /\ UNCHANGED <<appState, resources, metadata, errorMsg, loads, uuids, showScriptModal,
                   showHistoryModal, history, stored, format, showValidationWarning,
                   draggedItemIndex, dragOverItemIndex, edits, commits,
                   harnessVars>>

setFormat(f) ==
    /\ ScriptShown
    /\ format' = f
    /\ UNCHANGED <<appState, resources, metadata, errorMsg, loads, uuids, showScriptModal,
                   showHistoryModal, history, stored, confirmed, showValidationWarning,
                   draggedItemIndex, dragOverItemIndex, edits, commits,
                   harnessVars>>

\* addToHistory: the resources stamped with the commit's time, those with a
\* URL not yet in the stored history, before the stored history
HasUrl(hs, url) == \E i \in 1..Len(hs) : hs[i].downloadUrl = url

\* addToHistory putting the new entries after the entries the history had
addToHistory_Append(prev, rs, timestamp) ==
    LET newItems == [i \in 1..Len(rs) |-> [resource |-> rs[i], dateAdded |-> timestamp]]
        New(h) == h.resource.downloadUrl # "" /\ ~HasUrl(prev, h.resource.downloadUrl)
        filteredNew == [i \in 1..Len(SelectSeq(newItems, New)) |->
                          [downloadUrl |-> SelectSeq(newItems, New)[i].resource.downloadUrl,
                           id |-> SelectSeq(newItems, New)[i].resource.id,
                           rawName |-> SelectSeq(newItems, New)[i].resource.rawName,
                           dateAdded |-> SelectSeq(newItems, New)[i].dateAdded]]
    IN prev \o filteredNew

addToHistory(prev, rs, timestamp) ==
    LET newItems == [i \in 1..Len(rs) |-> [resource |-> rs[i], dateAdded |-> timestamp]]
        New(h) == h.resource.downloadUrl # "" /\ ~HasUrl(prev, h.resource.downloadUrl)
        filteredNew == [i \in 1..Len(SelectSeq(newItems, New)) |->
                          [downloadUrl |-> SelectSeq(newItems, New)[i].resource.downloadUrl,
                           id |-> SelectSeq(newItems, New)[i].resource.id,
                           rawName |-> SelectSeq(newItems, New)[i].resource.rawName,
                           dateAdded |-> SelectSeq(newItems, New)[i].dateAdded]]
    IN filteredNew \o prev

\* handleCopyOrDownload offered as soon as the script modal is open
handleCopyOrDownload_Ungated ==
    /\ showScriptModal
    /\ commits < MaxCommits
    /\ commits' = commits + 1
    /\ history' = addToHistory(history, resources, commits + 1)
    /\ stored' = Present(addToHistory(history, resources, commits + 1))
    /\ UNCHANGED <<appState, resources, metadata, errorMsg, loads, uuids, showScriptModal,
                   showHistoryModal, format, confirmed, showValidationWarning,
                   draggedItemIndex, dragOverItemIndex, edits, harnessVars>>

\* handleCopy and handleDownload both end in onActionComplete()
handleCopyOrDownload ==
    /\ ScriptShown
    /\ commits < MaxCommits
    /\ commits' = commits + 1
    /\ history' = addToHistory(history, resources, commits + 1)
    /\ stored' = Present(addToHistory(history, resources, commits + 1))
    /\ UNCHANGED <<appState, resources, metadata, errorMsg, loads, uuids, showScriptModal,
                   showHistoryModal, format, confirmed, showValidationWarning,
                   draggedItemIndex, dragOverItemIndex, edits, harnessVars>>

onViewHistory ==
    /\ appState = REVIEW
    /\ PageReachable
    /\ NotDragging
    /\ showHistoryModal' = TRUE
    /\ UNCHANGED <<appState, resources, metadata, errorMsg, loads, uuids, showScriptModal,
                   history, stored, format, confirmed, showValidationWarning,
                   draggedItemIndex, dragOverItemIndex, edits, commits,
                   harnessVars>>

onCloseHistory ==
    /\ showHistoryModal
    /\ showHistoryModal' = FALSE
    /\ UNCHANGED <<appState, resources, metadata, errorMsg, loads, uuids, showScriptModal,
                   history, stored, format, confirmed, showValidationWarning,
                   draggedItemIndex, dragOverItemIndex, edits, commits,
                   harnessVars>>

\* the Clear History button is disabled while the history is empty
clearHistory ==
    /\ showHistoryModal
    /\ history # <<>>
    /\ history' = <<>>
    /\ stored' = Absent
    /\ UNCHANGED <<appState, resources, metadata, errorMsg, loads, uuids, showScriptModal,
                   showHistoryModal, format, confirmed, showValidationWarning,
                   draggedItemIndex, dragOverItemIndex, edits, commits,
                   harnessVars>>

(***************************************************************************)
(* The application.                                                        *)
(***************************************************************************)
Init == AppInit /\ ScanIdle /\ ValidateIdle /\ MergeIdle /\ ScriptIdle /\ RunIdle

Next ==
    \/ \E i \in 1..Len(SAMPLE_WORKFLOWS) : loadSample(SAMPLE_WORKFLOWS[i])
    \/ \E i \in 1..Len(UserFiles) : handleFileChange(UserFiles[i])
    \/ \E l \in 1..Len(loads) : readerOnload(l)
    \/ \E l \in 1..Len(loads) : collaboratorResponds(l)
    \/ \E l \in 1..Len(loads) : collaboratorRejects(l)
    \/ tryAgain
    \/ \E id \in Ids(resources) : handleDelete(id)
    \/ \E id \in Ids(resources) : \E c \in 1..Len(EditChoices) :
          handleUpdate(id, EditChoices[c].field, EditChoices[c].value)
    \/ \E i \in 1..Len(resources) : handleDragStart(i)
    \/ \E i \in 1..Len(resources) : handleDragEnter(i)
    \/ handleDrop
    \/ handleDragEnd
    \/ onGenerateScript
    \/ onClose
    \/ proceedAnyway
    \/ iHaveReviewed
    \/ \E f \in {"bash", "bat"} : setFormat(f)
    \/ handleCopyOrDownload
    \/ onViewHistory
    \/ onCloseHistory
    \/ clearHistory

Spec == Init /\ [][Next]_vars

(***************************************************************************)
(* The load pipeline alone (scan, then resolve batch by batch), over files *)
(* that reach every exit of handleFileLoaded and need more than one batch. *)
(***************************************************************************)
\* an execution-form document of n custom nodes Node1 .. Noden
BigDoc(n) ==
    JObj([i \in 1..n |->
            Prop(ToString(i),
                 JObj(<<Prop("class_type", JStr("Node" \o ToString(i))),
                        Prop("inputs", JObj(<<>>))>>))])

ResolveFiles ==
    << [filename |-> "broken.json", content |-> Invalid],
       [filename |-> "core.json", content |-> ApiDoc(<<1>>)],
       [filename |-> "mine.json", content |-> SavedDoc(<<3>>)],
       [filename |-> "big.json", content |-> BigDoc(BATCH_SIZE + 1)] >>

NextResolve ==
    \/ \E i \in 1..Len(SAMPLE_WORKFLOWS) : loadSample(SAMPLE_WORKFLOWS[i])
    \/ \E i \in 1..Len(ResolveFiles) : handleFileChange(ResolveFiles[i])
    \/ \E l \in 1..Len(loads) : readerOnload(l)
    \/ \E l \in 1..Len(loads) : collaboratorResponds(l)
    \/ \E l \in 1..Len(loads) : collaboratorRejects(l)
    \/ tryAgain

SpecResolve == Init /\ [][NextResolve]_vars

(***************************************************************************)
(* The load pipeline over the files that end handleFileLoaded at each of   *)
(* its exits: a text that is not JSON, a workflow of core nodes only, a    *)
(* workflow with a custom node.                                            *)
(***************************************************************************)
LoadFiles ==
    << [filename |-> "broken.json", content |-> Invalid],
       [filename |-> "core.json", content |-> ApiDoc(<<1>>)],
       [filename |-> "mine.json", content |-> SavedDoc(<<3>>)] >>

NextLoad ==
    \/ \E i \in 1..Len(SAMPLE_WORKFLOWS) : loadSample(SAMPLE_WORKFLOWS[i])
    \/ \E i \in 1..Len(LoadFiles) : handleFileChange(LoadFiles[i])
    \/ \E l \in 1..Len(loads) : readerOnload(l)
    \/ \E l \in 1..Len(loads) : collaboratorResponds(l)
    \/ \E l \in 1..Len(loads) : collaboratorRejects(l)
    \/ tryAgain

SpecLoad == Init /\ [][NextLoad]_vars

(***************************************************************************)
(* The document as the claims read it: the node records in traversal order *)
(* and, for the execution form, each node's input entries.                 *)
(***************************************************************************)
IsApiDocument(d) ==
    /\ d.t = "object"
    /\ ~IsSavedFormat(d)
    /\ \A i \in 1..Len(d.v) : d.v[i].val.t = "object"

ApiInputs(d, n) == ForInEntries(Get(d.v[n].val, "inputs"))

\* node n's class_type is a node-type occurrence of `name`
TypeOccurrence(d, n, name) ==
    LET ty == Get(d.v[n].val, "class_type") IN
    ty.t = "string" /\ ~isCoreNode(ty.v) /\ Trim(ty.v) = name

ItemNamed(items, name, isNode) ==
    \E k \in 1..Len(items) : items[k].rawName = name /\ items[k].isNode = isNode

(* C1: the sequence returned by scan never holds two items with equal      *)
(* rawName, whatever node types and file values the document contains.     *)
C1_UniqueRawName ==
    scanned.status = "ok" =>
        \A i, j \in 1..Len(scanned.items) :
            i # j => scanned.items[i].rawName # scanned.items[j].rawName

\* witness: a document naming a.safetensors twice (once with a leading
\* blank) was scanned into one item for it
C1_Witness ==
    /\ doc = ApiDoc(<<3, 6>>)
    /\ scanned.status = "ok"
    /\ Len(scanned.items) = 2
    /\ scanned.items[2].rawName = "a.safetensors"

(* C2: no item returned by scan has a rawName that is a node type of the   *)
(* built-in denylist CORE_NODES, however the type is written.              *)
C2_NoCoreNodeScanned ==
    scanned.status = "ok" =>
        \A i \in 1..Len(scanned.items) : scanned.items[i].rawName \notin CORE_NODES

(* C3 as stated: in an execution-form document every string input value    *)
(* ending in .safetensors, under any key, is an item with the trimmed name *)
(* and isNode = false.                                                     *)
C3_Original ==
    (scanned.status = "ok" /\ IsApiDocument(doc)) =>
        \A n \in 1..Len(doc.v) : \A e \in 1..Len(ApiInputs(doc, n)) :
            LET val == ApiInputs(doc, n)[e].val IN
            (val.t = "string" /\ EndsWith(val.v, ".safetensors")) =>
                ItemNamed(scanned.items, Trim(val.v), FALSE)

(* C3 amended: such a value is an item with the trimmed name; its isNode   *)
(* is false unless the same trimmed name occurred earlier in traversal     *)
(* order as a non-core class_type, whose isNode = true item is kept.       *)
C3_SafetensorsExtracted ==
    (scanned.status = "ok" /\ IsApiDocument(doc)) =>
        \A n \in 1..Len(doc.v) : \A e \in 1..Len(ApiInputs(doc, n)) :
            LET val == ApiInputs(doc, n)[e].val IN
            (val.t = "string" /\ EndsWith(val.v, ".safetensors")) =>
                \/ ItemNamed(scanned.items, Trim(val.v), FALSE)
                \/ /\ ItemNamed(scanned.items, Trim(val.v), TRUE)
                   /\ \E m \in 1..n : TypeOccurrence(doc, m, Trim(val.v))

\* witness: a .safetensors value under a key outside fileKeys was extracted
C3_Witness ==
    /\ scanned.status = "ok"
    /\ IsApiDocument(doc)
    /\ \E n \in 1..Len(doc.v) : \E e \in 1..Len(ApiInputs(doc, n)) :
            LET ent == ApiInputs(doc, n)[e] IN
            /\ ent.k \notin fileKeys
            /\ ent.val.t = "string"
            /\ EndsWith(ent.val.v, ".safetensors")
            /\ ItemNamed(scanned.items, Trim(ent.val.v), FALSE)

(* C4: after any sequence of commits and clears the stored history holds   *)
(* at most one entry per downloadUrl.                                      *)
C4_OneEntryPerUrl ==
    /\ \A i, j \in 1..Len(history) :
          i # j => history[i].downloadUrl # history[j].downloadUrl
    /\ stored.present =>
          \A i, j \in 1..Len(stored.value) :
             i # j => stored.value[i].downloadUrl # stored.value[j].downloadUrl

\* the reply is a list of guesses: the try block runs to its end
IsGuessList(reply) ==
    /\ reply.kind = "parsed"
    /\ reply.json.t = "array"
    /\ \A i \in 1..Len(reply.json.v) : reply.json.v[i].t = "object"

Guessed(reply, rawName) ==
    \E i \in 1..Len(reply.json.v) : Get(reply.json.v[i], "rawName") = JStr(rawName)

(* C6: resolve produces a resource for every scanned item of a batch whose *)
(* response parsed; an item no guess names still gets a resource with its  *)
(* id, rawName and isNode, type Unknown, blank fields and the default      *)
(* computeType.                                                            *)
C6_EveryItemResolved ==
    (merged # NotRun /\ IsGuessList(mReply)) =>
        \A i \in 1..Len(mChunk) :
            \E j \in 1..Len(merged.resources) :
                LET r == merged.resources[j] IN
                /\ r.id = mChunk[i].id
                /\ r.rawName = mChunk[i].rawName
                /\ r.isNode = mChunk[i].isNode
                /\ ~Guessed(mReply, mChunk[i].rawName) =>
                      /\ r.type = UNKNOWN
                      /\ r.name = "" /\ r.description = ""
                      /\ r.targetPath = "" /\ r.downloadUrl = ""
                      /\ r.computeType = DefaultComputeType(UNKNOWN)

(* C7: every resource in the output of resolve has the id, rawName and     *)
(* isNode of one scanned item of the input.                                *)
C7_IdentityFromScan ==
    merged # NotRun =>
        \A j \in 1..Len(merged.resources) :
            \E i \in 1..Len(mChunk) :
                /\ merged.resources[j].id = mChunk[i].id
                /\ merged.resources[j].rawName = mChunk[i].rawName
                /\ merged.resources[j].isNode = mChunk[i].isNode

(* C8: in every reachable state of the resource list no two resources have *)
(* the same id.                                                            *)
C8_UniqueIds ==
    \A i, j \in 1..Len(resources) : i # j => resources[i].id # resources[j].id

(* C9: a batch whose collaborator call rejects or returns unparsable       *)
(* output does not abort the resolution: while batches remain after the    *)
(* one awaited, the load goes on to issue the next one.                    *)
C9_LaterBatchesIssued ==
    [][\A l \in 1..Len(loads) :
          (loads[l].pc = "awaiting" /\ loads[l].next < Len(Chunks(loads[l].items)))
             => loads'[l] \in {loads[l],
                               AwaitingLoad(loads[l].filename, loads[l].items,
                                            loads[l].next + 1, loads'[l].allEnriched)}]_vars

(***************************************************************************)
(* The script as the claims read it: the conditionals that enclose a line, *)
(* and the acquisition commands with the targets they write.               *)
(***************************************************************************)
OpensIf(fmt, line) ==
    LET t == TrimStart(line) IN
    StartsWith(t, "if ") /\ EndsWith(t, IF fmt = "bash" THEN "; then" ELSE " (")

IsElse(fmt, line) == TrimStart(line) = (IF fmt = "bash" THEN "else" ELSE ") else (")

ClosesIf(fmt, line) == TrimStart(line) = (IF fmt = "bash" THEN "fi" ELSE ")")

\* what each line is to the nesting: it opens a conditional, turns to its
\* else-branch, closes it, or is a command
Kinds(lines, fmt) ==
    [i \in 1..Len(lines) |->
        IF OpensIf(fmt, lines[i]) THEN "if"
        ELSE IF IsElse(fmt, lines[i]) THEN "else"
        ELSE IF ClosesIf(fmt, lines[i]) THEN "end"
        ELSE "cmd"] \o <<>>

\* the number of conditionals open after each line
Depths(kinds) ==
    [k \in 1..Len(kinds) |->
        Cardinality({i \in 1..k : kinds[i] = "if"})
        - Cardinality({i \in 1..k : kinds[i] = "end"})] \o <<>>

\* the conditionals open around line n, outermost first, each with the line
\* that opened it and the branch line n is in
Nesting(lines, fmt, n) ==
    LET kinds == Kinds(lines, fmt)
        depths == Depths(kinds)
        Open(j) == kinds[j] = "if" /\ \A k \in (j + 1)..(n - 1) : depths[k] >= depths[j]
        Branch(j) ==
            IF \E k \in (j + 1)..(n - 1) : kinds[k] = "else" /\ depths[k] = depths[j]
            THEN "else" ELSE "then"
        openers == SelectSeq([j \in 1..(n - 1) |-> j], Open)
    IN [e \in 1..Len(openers) |-> [opener |-> openers[e], branch |-> Branch(openers[e])]]

\* the text between `open` and the next `close`
Between(line, open, close) ==
    LET rest == From(line, IndexOf(line, open) + Len(open)) IN
    SubSeq(rest, 1, IndexOf(rest, close) - 1)

IsClone(line) == StartsWith(TrimStart(line), "git clone ")
IsFetch(fmt, line) ==
    IF fmt = "bash" THEN StartsWith(TrimStart(line), "wget ")
    ELSE Includes(line, "Invoke-WebRequest ")
IsAcquisition(fmt, line) == IsClone(line) \/ IsFetch(fmt, line)

\* the target an acquisition line writes: the folder git names after the
\* repository, resp. the output file
TargetOf(fmt, line) ==
    IF IsClone(line) THEN getRepoFolderName(Between(line, "\"", "\""))
    ELSE IF fmt = "bash" THEN Between(line, "-O \"", "\"")
    ELSE Between(line, "-OutFile '", "'")

\* the guard that tests the absence of the target of an acquisition line
AbsenceGuard(fmt, line) ==
    IF fmt = "bash"
    THEN "if [ ! -" \o (IF IsClone(line) THEN "d" ELSE "f") \o " \""
         \o TargetOf(fmt, line) \o "\" ]; then"
    ELSE "if not exist \"" \o TargetOf(fmt, line) \o "\" ("

IsAbsenceTest(fmt, line) ==
    LET t == TrimStart(line) IN
    IF fmt = "bash" THEN StartsWith(t, "if [ ! -d ") \/ StartsWith(t, "if [ ! -f ")
    ELSE StartsWith(t, "if not exist ")

\* line n is in the then-branch of the guard of its own target, and that
\* guard is the innermost conditional around it
GuardedByOwnTarget(lines, fmt, n) ==
    LET st == Nesting(lines, fmt, n) \o <<>> IN
    /\ st # <<>>
    /\ st[Len(st)].branch = "then"
    /\ TrimStart(lines[st[Len(st)].opener]) = AbsenceGuard(fmt, lines[n])

\* line n can be reached by a run in which every absence test finds its file
RunsWhenAllPresent(lines, fmt, n) ==
    LET st == Nesting(lines, fmt, n) \o <<>> IN
    \A e \in 1..Len(st) :
        ~(IsAbsenceTest(fmt, lines[st[e].opener]) /\ st[e].branch = "then")

\* the acquisition line of resource r
AcquisitionOf(fmt, r) ==
    IF r.type = CUSTOM_NODE THEN "  git clone \"" \o r.downloadUrl \o "\""
    ELSE IF fmt = "bash"
    THEN "  wget -c --show-progress -O \"" \o r.targetPath \o "/" \o r.rawName
         \o "\" \"" \o r.downloadUrl \o "\""
    ELSE "  powershell -Command \"$ProgressPreference = 'Continue'; try { Invoke-WebRequest -Uri '"
         \o r.downloadUrl \o "' -OutFile '" \o ReplaceAll(r.targetPath, "/", "\\") \o "\\"
         \o r.rawName \o "'"

(* C10: in both dialects every acquisition command of the emitted script   *)
(* (the git clone of a CustomNode, the fetch of a model file) sits in the  *)
(* then-branch of a guard that tests the absence of its own target, so a   *)
(* run that finds every target present reaches no clone and no download;   *)
(* every resource with a downloadUrl has its acquisition command; for the  *)
(* CustomNode at https://github.com/foo/bar the POSIX guard is             *)
(* if [ ! -d "bar" ].                                                      *)
C10_AcquisitionsGuarded ==
    script # NotRun =>
        /\ \A n \in 1..Len(script.lines) :
              IsAcquisition(sFormat, script.lines[n]) =>
                 /\ GuardedByOwnTarget(script.lines, sFormat, n)
                 /\ ~RunsWhenAllPresent(script.lines, sFormat, n)
        /\ \A i \in 1..Len(sResources) :
              sResources[i].downloadUrl # "" =>
                 \E n \in 1..Len(script.lines) :
                    /\ StartsWith(script.lines[n], AcquisitionOf(sFormat, sResources[i]))
                    /\ IsAcquisition(sFormat, script.lines[n])
        /\ \A i \in 1..Len(sResources) :
              (/\ sFormat = "bash"
               /\ sResources[i].type = CUSTOM_NODE
               /\ sResources[i].downloadUrl = "https://github.com/foo/bar") =>
                 \E n \in 1..(Len(script.lines) - 2) :
                    /\ script.lines[n] = "if [ ! -d \"bar\" ]; then"
                    /\ script.lines[n + 2] = "  git clone \"https://github.com/foo/bar\""

\* witness: the batch script of the foo/bar CustomNode followed by a model
\* was generated, with its clone and its download
C10_Witness ==
    /\ script # NotRun
    /\ sFormat = "bat"
    /\ sResources = <<ScriptPool[1], ScriptPool[6]>>
    /\ \E n, m \in 1..Len(script.lines) :
          /\ IsClone(script.lines[n])
          /\ IsFetch(sFormat, script.lines[m])
          /\ n < m

(***************************************************************************)
(* A run of the emitted POSIX script by /bin/bash, started in the ComfyUI  *)
(* root folder.  The shell reads one complete command at a time, a whole   *)
(* if ... fi at the top level, and executes it before it reads the next;   *)
(* a command it cannot parse ends the run with exit code 2.  The external  *)
(* commands (git, pip, python, wget) succeed or fail, and a download can   *)
(* be interrupted, which kills the run and leaves a partial file.          *)
(***************************************************************************)
MaxRuns == 2           \* runs of the script over the same folder

Manifests == {".gitmodules", "requirements.txt", "install.py"}

Join(dir, name) == IF dir = "" THEN name ELSE dir \o "/" \o name

Parent(dir) == SubSeq(dir, 1, LastIndexOf(dir, "/") - 1)

\* the folder `path` and the folders above it, as mkdir -p creates them
WithParents(path) ==
    {path} \cup {SubSeq(path, 1, i - 1) : i \in {j \in 2..Len(path) : CharAt(path, j) = "/"}}

Quoted(t) == Between(t, "\"", "\"")

\* the folder git clone creates for a repository URL
CloneFolder(url) == StripDotGit(LastNonEmptySegment(url))

\* [ -f path ]: a partial file is a file
IsFile(f, path) == path \in f.files \cup f.partial

\* the test of an if line
Holds(cond, s, f) ==
    IF cond = "[ $? -ne 0 ]" THEN s.status # 0
    ELSE IF StartsWith(cond, "[ ! -d ") THEN Join(s.cwd, Quoted(cond)) \notin f.dirs
    ELSE IF StartsWith(cond, "[ -d ") THEN Join(s.cwd, Quoted(cond)) \in f.dirs
    ELSE IF StartsWith(cond, "[ ! -f ") THEN ~IsFile(f, Join(s.cwd, Quoted(cond)))
    ELSE IsFile(f, Join(s.cwd, Quoted(cond)))

\* the first line after p where the nesting is back at `depth`, or one past
\* the end of the script
FirstAtDepth(depths, p, depth) ==
    LET at == {k \in (p + 1)..Len(depths) : depths[k] = depth}
    IN IF at = {} THEN Len(depths) + 1 ELSE CHOOSE k \in at : \A j \in at : k <= j

\* bash cannot parse the command that starts at line p of the top level: a
\* "}" stands where a command is expected, or the script ends inside it
SyntaxError(lines, kinds, depths, p) ==
    LET last == IF kinds[p] = "if" THEN FirstAtDepth(depths, p, 0) ELSE p
    IN \/ last > Len(lines)
       \/ \E k \in p..last : TrimStart(lines[k]) = "}"

IsStep(t) ==
    \/ StartsWith(t, "git submodule ")
    \/ StartsWith(t, "pip ")
    \/ StartsWith(t, "python ")

Outcome(s, f) == [sh |-> s, fs |-> f]

Stepped(s, status) == [s EXCEPT !.pc = @ + 1, !.status = status]

Logged(s) == [s EXCEPT !.ran = @ \cup {[line |-> s.pc, cwd |-> s.cwd]}]

\* the states the shell s can be in after line s.pc, over the folder f
Exec(lines, s, f, manifests) ==
    LET t == TrimStart(lines[s.pc])
        kinds == Kinds(lines, "bash")
        depths == Depths(kinds)
        before == IF s.pc = 1 THEN 0 ELSE depths[s.pc - 1]
        fi == FirstAtDepth(depths, s.pc, before)
        elses == {k \in (s.pc + 1)..(fi - 1) : kinds[k] = "else" /\ depths[k] = before + 1}
        cond == SubSeq(t, 4, Len(t) - 6)
        folder == Join(s.cwd, Quoted(t))
        cloned == Join(s.cwd, CloneFolder(Quoted(t)))
        target == Join(s.cwd, Between(t, "-O \"", "\""))
    IN
    IF before = 0 /\ SyntaxError(lines, kinds, depths, s.pc)
    THEN {Outcome([s EXCEPT !.state = "exited", !.code = 2], f)}
    ELSE IF kinds[s.pc] = "if"
    THEN IF Holds(cond, s, f) THEN {Outcome(Stepped(s, 0), f)}
         ELSE IF elses # {}
         THEN {Outcome([s EXCEPT !.pc = (CHOOSE k \in elses : TRUE) + 1, !.status = 1], f)}
         ELSE {Outcome([s EXCEPT !.pc = fi + 1, !.status = 0], f)}
    ELSE IF kinds[s.pc] = "else"
    THEN {Outcome([s EXCEPT !.pc = FirstAtDepth(depths, s.pc, depths[s.pc] - 1) + 1], f)}
    ELSE IF kinds[s.pc] = "end" \/ t = "" \/ StartsWith(t, "#")
    THEN {Outcome([s EXCEPT !.pc = @ + 1], f)}
    ELSE IF StartsWith(t, "echo ")
    THEN {Outcome(Stepped(Logged(s), 0), f)}
    ELSE IF StartsWith(t, "mkdir -p ")
    THEN {Outcome(Stepped(Logged(s), 0), [f EXCEPT !.dirs = @ \cup WithParents(folder)])}
    ELSE IF t = "cd .."
    THEN {Outcome([Stepped(Logged(s), 0) EXCEPT !.cwd = Parent(s.cwd)], f)}
    ELSE IF StartsWith(t, "cd ")
    THEN IF folder \in f.dirs
         THEN {Outcome([Stepped(Logged(s), 0) EXCEPT !.cwd = folder], f)}
         ELSE {Outcome(Stepped(Logged(s), 1), f)}
    ELSE IF StartsWith(t, "git clone ")
    THEN {Outcome(Stepped(Logged(s), 0),
                  [f EXCEPT !.dirs = @ \cup {cloned},
                            !.files = @ \cup {Join(cloned, m) : m \in manifests}]),
          Outcome(Stepped(Logged(s), 1), f)}
    ELSE IF IsStep(t)
    THEN {Outcome(Stepped(Logged(s), 0), f), Outcome(Stepped(Logged(s), 1), f)}
    ELSE IF StartsWith(t, "wget ")
    THEN LET done == [f EXCEPT !.files = @ \cup {target}, !.partial = @ \ {target}]
             part == IF target \in f.files THEN f
                     ELSE [f EXCEPT !.partial = @ \cup {target}]
         IN {Outcome(Stepped(Logged(s), 0), done),
             Outcome(Stepped(Logged(s), 1), part),
             Outcome([Logged(s) EXCEPT !.state = "killed"], part)}
    ELSE {Outcome(Stepped(Logged(s), 127), f)}

RunPool == <<ScriptPool[1], ScriptPool[6], ScriptPool[8]>>

RunLists ==
    {[i \in 1..Len(idx) |-> RunPool[idx[i]]] :
        idx \in UNION {[1..n -> 1..Len(RunPool)] : n \in 1..MaxScriptLen}}

InitRun ==
    /\ AppInit
    /\ ScanIdle
    /\ ValidateIdle
    /\ MergeIdle
    /\ sResources \in RunLists
    /\ sFormat = "bash"
    /\ script = NotRun
    /\ repo \in SUBSET Manifests
    /\ fs = EmptyFolder
    /\ sh = NoShell
    /\ gUrl = ""
    /\ gFolder = NotRun

\* the user starts the downloaded script in the ComfyUI root folder
Launch ==
    /\ script # NotRun
    /\ sh.state # "running"
    /\ sh.runs < MaxRuns
    /\ sh' = [state |-> "running", pc |-> 1, cwd |-> "", status |-> 0, code |-> 0,
              found |-> fs.partial, ran |-> {}, runs |-> sh.runs + 1]
    /\ UNCHANGED <<repo, fs, appVars, scanVars, validateVars, mergeVars, scriptVars,
                   folderVars>>

\* the shell executes the line at pc
Step ==
    /\ sh.state = "running"
    /\ sh.pc <= Len(script.lines)
    /\ \E o \in Exec(script.lines, sh, fs, repo) : sh' = o.sh /\ fs' = o.fs
    /\ UNCHANGED <<repo, appVars, scanVars, validateVars, mergeVars, scriptVars,
                   folderVars>>

\* the shell reaches the end of the script
Exit ==
    /\ sh.state = "running"
    /\ sh.pc > Len(script.lines)
    /\ sh' = [sh EXCEPT !.state = "exited", !.code = sh.status]
    /\ UNCHANGED <<repo, fs, appVars, scanVars, validateVars, mergeVars, scriptVars,
                   folderVars>>

NextRun == Generate \/ Launch \/ Step \/ Exit

SpecRun == InitRun /\ [][NextRun]_vars

(***************************************************************************)
(* What a run did, read from the shell's record of it.                     *)
(***************************************************************************)
\* the file a model resource is downloaded to, from the ComfyUI root
ModelFile(r) == r.targetPath \o "/" \o r.rawName

\* the folder the script expects the repository of a CustomNode in
NodeFolder(r) == Join("custom_nodes", getRepoFolderName(r.downloadUrl))

\* the run executed the command `text` in the folder cwd
RanIn(text, cwd) ==
    \E e \in sh.ran : e.cwd = cwd /\ TrimStart(script.lines[e.line]) = text

\* the run invoked the download of the file `target`
Fetched(target) ==
    \E e \in sh.ran :
        /\ IsFetch("bash", script.lines[e.line])
        /\ Join(e.cwd, TargetOf("bash", script.lines[e.line])) = target

StepOf(manifest) ==
    IF manifest = ".gitmodules" THEN "git submodule update --init --recursive"
    ELSE IF manifest = "requirements.txt" THEN "pip install -r requirements.txt"
    ELSE "python install.py"

\* the first command of the block of resource r
Processing(r) ==
    IF r.type = CUSTOM_NODE THEN "echo \"Processing Custom Node: " \o r.name \o "...\""
    ELSE "echo \"Processing Model: " \o r.name \o "...\""

(* C11: in the POSIX dialect, when a run of the script ends normally over  *)
(* a folder in which it found a partial file at targetPath/rawName of a    *)
(* model resource, left there by an interrupted earlier run, the run has   *)
(* invoked the download of that file again, so that it is continued.       *)
C11_PartialDownloadResumed ==
    (sh.state = "exited" /\ sh.code = 0) =>
        \A i \in 1..Len(sResources) :
            (/\ sResources[i].type # CUSTOM_NODE
             /\ sResources[i].downloadUrl # ""
             /\ ModelFile(sResources[i]) \in sh.found)
                => Fetched(ModelFile(sResources[i]))

(* C12: when a run of the POSIX script ends, for every CustomNode whose    *)
(* folder is present each post-clone step whose manifest is in that folder *)
(* has run there (submodule update for .gitmodules, pip install for        *)
(* requirements.txt, python for install.py), whatever the other steps      *)
(* returned, and the block of every resource with a downloadUrl has run.   *)
C12_PostCloneStepsRun ==
    sh.state = "exited" =>
        /\ \A i \in 1..Len(sResources) :
              (/\ sResources[i].type = CUSTOM_NODE
               /\ sResources[i].downloadUrl # ""
               /\ NodeFolder(sResources[i]) \in fs.dirs)
                  => \A m \in Manifests :
                        Join(NodeFolder(sResources[i]), m) \in fs.files
                           => RanIn(StepOf(m), NodeFolder(sResources[i]))
        /\ \A i \in 1..Len(sResources) :
              sResources[i].downloadUrl # "" => RanIn(Processing(sResources[i]), "")

(***************************************************************************)
(* The per-resource blocks of a script, cut at the rule that opens each.   *)
(***************************************************************************)
BlockRule(fmt) ==
    IF fmt = "bash" THEN "# ----------------------------------------------------------------"
    ELSE ":: ----------------------------------------------------------------"

FooterLen(fmt) == IF fmt = "bash" THEN Len(bashFooter) ELSE Len(batFooter)

\* the blocks of the script `lines`, in the order they stand in it
BlocksOf(lines, fmt) ==
    LET IsRule(i) == lines[i] = BlockRule(fmt)
        rules == SelectSeq([i \in 1..Len(lines) |-> i], IsRule)
        EndOf(k) == IF k < Len(rules) THEN rules[k + 1] - 1 ELSE Len(lines) - FooterLen(fmt)
    IN [k \in 1..Len(rules) |-> SubSeq(lines, rules[k], EndOf(k))]

HasDownloadUrl(r) == r.downloadUrl # ""

Reverse(s) == [i \in 1..Len(s) |-> s[Len(s) + 1 - i]]

\* the block a resource gets in a script of its own
OwnBlock(r, fmt) == BlocksOf(generateScript(<<r>>, fmt, Today), fmt)[1]

(* C13: the script holds exactly one block per resource of the list with a *)
(* non-empty downloadUrl, in the order of the list; each block is the text *)
(* the resource gets in a script of its own in that dialect; the script of *)
(* the reversed list holds the same blocks in reverse order.               *)
C13_BlocksFollowInput ==
    script # NotRun =>
        LET kept == SelectSeq(sResources, HasDownloadUrl)
            blocks == BlocksOf(script.lines, sFormat)
        IN /\ Len(blocks) = Len(kept)
           /\ \A k \in 1..Len(kept) : blocks[k] = OwnBlock(kept[k], sFormat)
           /\ BlocksOf(generateScript(Reverse(sResources), sFormat, Today), sFormat)
                 = Reverse(blocks)

\* witness: two different resources with a downloadUrl, a model before a
\* CustomNode, and a script of two different blocks
C13_Witness ==
    /\ script # NotRun
    /\ sResources = <<ScriptPool[6], ScriptPool[2]>>
    /\ Len(BlocksOf(script.lines, sFormat)) = 2
    /\ BlocksOf(script.lines, sFormat)[1] # BlocksOf(script.lines, sFormat)[2]

(***************************************************************************)
(* The date of the header: new Date().toISOString().split('T')[0] of the   *)
(* day generateScript is called.                                           *)
(***************************************************************************)
Dates == {Today, "2025-01-02", "2026-11-04"}

\* the header comment that carries the date, for a script made on day t
DateLine(fmt, t) ==
    (IF fmt = "bash" THEN "# " ELSE ":: ") \o "ComfyUI Resource Installer - Generated on " \o t

(* C14: a second call of generateScript with the same resource list and    *)
(* the same dialect returns the same lines as the first; when the day has  *)
(* changed between the calls, the two results differ in the header comment *)
(* that carries the date, line 2, and nowhere else.                        *)
C14_SameScriptApartFromDate ==
    script # NotRun =>
        \A t \in Dates :
            LET again == generateScript(sResources, sFormat, t) IN
            /\ Len(again) = Len(script.lines)
            /\ \A i \in 1..Len(again) : i # 2 => again[i] = script.lines[i]
            /\ again[2] = DateLine(sFormat, t)
            /\ script.lines[2] = DateLine(sFormat, Today)
            /\ t = Today => again = script.lines

\* witness: a POSIX script of two blocks whose second making, a day later,
\* is another text
C14_Witness ==
    /\ script # NotRun
    /\ sFormat = "bash"
    /\ sResources = <<ScriptPool[2], ScriptPool[7]>>
    /\ generateScript(sResources, sFormat, "2025-01-02") # script.lines
    /\ generateScript(sResources, sFormat, Today) = script.lines

(***************************************************************************)
(* Folder harness: getRepoFolderName over download URLs put together from  *)
(* a host part, an owner, a repository name and an ending.                 *)
(***************************************************************************)
UrlHosts ==
    {"https://github.com/", "http://www.github.com/", "HTTPS://GitHub.com/", "git@github.com:",
     "https://gitlab.com/", "git@gitlab.com:", "gitlab.com:", ""}
UrlOwners == {"foo/", ""}
UrlNames == {"bar", "bar.baz", "bar.git", ""}
UrlEndings == {"", ".git", ".GIT", "/", ".git/"}

\* generateScript skips a resource whose downloadUrl is empty
FolderUrls ==
    {h \o o \o n \o e : h \in UrlHosts, o \in UrlOwners, n \in UrlNames, e \in UrlEndings} \ {""}

Derived(name) == [status |-> "derived", name |-> name]

InitFolder ==
    /\ AppInit
    /\ ScanIdle
    /\ ValidateIdle
    /\ MergeIdle
    /\ ScriptIdle
    /\ repo = {}
    /\ fs = EmptyFolder
    /\ sh = NoShell
    /\ gUrl \in FolderUrls
    /\ gFolder = NotRun

RepoFolder ==
    /\ gFolder = NotRun
    /\ gFolder' = Derived(getRepoFolderName(gUrl))
    /\ UNCHANGED <<gUrl, appVars, scanVars, validateVars, mergeVars, scriptVars, runVars>>

NextFolder == RepoFolder

SpecFolder == InitFolder /\ [][NextFolder]_vars

\* the URL has one of the two GitHub forms the function looks for first
IsGitHubForm(url) == RepoMatch(url, SshPrefixes) # "" \/ RepoMatch(url, HttpsPrefixes) # ""

(* C15 as stated: the folder name is "unknown_node" for every downloadUrl  *)
(* that cannot be parsed as a URL, and otherwise never ends in ".git".     *)
C15_Original ==
    gFolder # NotRun =>
        IF ~IsGitHubForm(gUrl) /\ ~UrlPathname(gUrl).ok
        THEN gFolder.name = "unknown_node"
        ELSE ~EndsWith(gFolder.name, ".git")

(* C15: the folder name is never empty; for a downloadUrl that has neither *)
(* GitHub form and cannot be parsed as a URL it is the text after the last *)
(* "/" without one trailing ".git", and "unknown_node" only when nothing   *)
(* is left of that text; whatever the URL, the name ends in ".git" only    *)
(* when the URL holds ".git.git".                                          *)
C15_FolderName ==
    gFolder # NotRun =>
        LET tail == From(gUrl, LastIndexOf(gUrl, "/") + 1)
            bare == IF EndsWith(tail, ".git") THEN SubSeq(tail, 1, Len(tail) - 4) ELSE tail
        IN /\ gFolder.name # ""
           /\ (~IsGitHubForm(gUrl) /\ ~UrlPathname(gUrl).ok) =>
                 gFolder.name = (IF bare = "" THEN "unknown_node" ELSE bare)
           /\ EndsWith(gFolder.name, ".git") => Includes(gUrl, ".git.git")

\* witness: the name of a URL without a scheme was derived from its last
\* segment
C15_Witness ==
    /\ gFolder # NotRun
    /\ gUrl = "foo/bar.git"
    /\ gFolder.name = "bar"

(* C16: when the FileReader hands handleFileLoaded a text that JSON.parse  *)
(* rejects, parseWorkflowData fails with "Invalid JSON format" and returns *)
(* no item; that invocation ends at once: the application shows ERROR with *)
(* that message, no call of the collaborator is outstanding for the load,  *)
(* and the resource list is the one it was.                                *)
C16_ParseErrorIsFatal ==
    [][\A l \in 1..Len(loads) :
          (loads[l].pc = "reading" /\ loads[l].content = Invalid /\ loads'[l] # loads[l])
             => /\ parseWorkflowData(loads[l].content, uuids)
                      = [status |-> "error", message |-> "Invalid JSON format", items |-> <<>>]
                /\ appState' = ERROR
                /\ errorMsg' = "Invalid JSON format"
                /\ loads'[l] = DoneLoad(loads[l].filename)
                /\ resources' = resources
                /\ uuids' = uuids]_vars

\* witness: a file that is not JSON was read while the resources of a sample
\* were under review; the application shows the error and still holds them
C16_Witness ==
    /\ appState = ERROR
    /\ errorMsg = "Invalid JSON format"
    /\ resources # <<>>
    /\ \E l \in 1..Len(loads) : loads[l] = DoneLoad("broken.json")

(* C17: when parseWorkflowData returns no item for a text that is JSON,    *)
(* that invocation of handleFileLoaded ends at once: the application shows *)
(* ERROR with the message "No identifiable resources found in this         *)
(* workflow.", which is not the message of a parse error; no call of the   *)
(* collaborator is outstanding for the load, the resource list is the one  *)
(* it was, and an invocation that has ended never resumes, so it never     *)
(* reaches REVIEW.                                                         *)
C17_EmptyScanIsFatal ==
    [][/\ \A l \in 1..Len(loads) :
             (/\ loads[l].pc = "reading"
              /\ parseWorkflowData(loads[l].content, uuids).status = "ok"
              /\ parseWorkflowData(loads[l].content, uuids).items = <<>>
              /\ loads'[l] # loads[l])
                => /\ appState' = ERROR
                   /\ errorMsg' = "No identifiable resources found in this workflow."
                   /\ errorMsg' # parseWorkflowData(Invalid, uuids).message
                   /\ loads'[l] = DoneLoad(loads[l].filename)
                   /\ resources' = resources
       /\ \A l \in 1..Len(loads) : loads[l].pc = "done" => loads'[l] = loads[l]]_vars

\* witness: a workflow of core nodes only was read; the application shows
\* the message of the empty result and counts no node
C17_Witness ==
    /\ appState = ERROR
    /\ errorMsg = "No identifiable resources found in this workflow."
    /\ metadata = [filename |-> "core.json", nodeCount |-> 0]
    /\ \E l \in 1..Len(loads) : loads[l] = DoneLoad("core.json")

\* the literal values of node n of a graph-form document
WidgetValues(d, n) ==
    LET wv == Get(Get(d, "nodes").v[n], "widgets_values") IN
    IF wv.t = "array" THEN wv.v ELSE <<>>

\* the type of some node of the graph-form document d is `name`
SavedTypeOccurrence(d, name) ==
    \E n \in 1..Len(Get(d, "nodes").v) :
        LET ty == Get(Get(d, "nodes").v[n], "type") IN
        ty.t = "string" /\ ~isCoreNode(ty.v) /\ Trim(ty.v) = name

(* C18: in a graph-form document every string of a node's widgets_values   *)
(* that ends in .safetensors, .ckpt, .pt or .pth is an item of the scan    *)
(* with the trimmed name and isNode = false (isNode = true only where the  *)
(* same name is also the type of a node).                                  *)
C18_WidgetModelFilesExtracted ==
    (scanned.status = "ok" /\ IsSavedFormat(doc)) =>
        \A n \in 1..Len(Get(doc, "nodes").v) : \A e \in 1..Len(WidgetValues(doc, n)) :
            LET val == WidgetValues(doc, n)[e] IN
            (val.t = "string"
             /\ \E x \in {".safetensors", ".ckpt", ".pt", ".pth"} : EndsWith(val.v, x))
                => \/ ItemNamed(scanned.items, Trim(val.v), FALSE)
                   \/ /\ ItemNamed(scanned.items, Trim(val.v), TRUE)
                      /\ SavedTypeOccurrence(doc, Trim(val.v))

\* the positions at which the lists rs and ss of equal length differ
Changed(rs, ss) == {i \in 1..Len(rs) : rs[i] # ss[i]}

(* C19: every step of the review that edits the list (an update of a       *)
(* field, a delete, a drop that reorders) leaves in the list only          *)
(* resources that were in it, with the id and the rawName they had; and a  *)
(* step that keeps the length and the order of the list changes one        *)
(* resource only, in one field, which is neither id nor rawName.           *)
C19_ReviewKeepsIdentity ==
    [][(appState = REVIEW /\ edits' = edits + 1) =>
          /\ \A j \in 1..Len(resources') : \E i \in 1..Len(resources) :
                 /\ resources'[j].id = resources[i].id
                 /\ resources'[j].rawName = resources[i].rawName
          /\ (/\ Len(resources') = Len(resources)
              /\ \A i \in 1..Len(resources) : resources'[i].id = resources[i].id
              /\ resources' # resources)
                 => /\ Cardinality(Changed(resources, resources')) = 1
                    /\ \A i \in Changed(resources, resources') :
                          Cardinality({f \in DOMAIN resources[i] :
                                          resources'[i][f] # resources[i][f]}) = 1]_vars

(* C20: whenever the script view (modal open, review confirmed, no         *)
(* warning pending) shows the script of a list with a resource that fails  *)
(* isDirectDownloadUrl, the reviewer has chosen Proceed Anyway at the      *)
(* warning that listed the failures of that list: the warning flag of an   *)
(* open modal is cleared only by that choice while the warning is shown,   *)
(* and a list that changes under the script view brings no failures the    *)
(* warning did not list.                                                   *)
C20_FailuresListedBeforeScript ==
    [][/\ (showScriptModal' /\ showValidationWarning /\ ~showValidationWarning')
              => WarningShown
       /\ (/\ showScriptModal' /\ confirmed' /\ ~showValidationWarning'
           /\ resources' # resources
           /\ validationErrors' # <<>>)
              => validationErrors' = validationErrors]_vars

(***************************************************************************)
(* The occurrences of names in a document, in the order the scanner visits *)
(* them: per node its non-core type, then its candidate values.            *)
(***************************************************************************)
Occurrence(name, isNode) == [name |-> Trim(name), isNode |-> isNode]

TypeOccurrences(node, typeKey) ==
    LET ty == Get(node, typeKey) IN
    IF ty.t = "string" /\ ty.v # "" /\ ~isCoreNode(ty.v)
    THEN <<Occurrence(ty.v, TRUE)>>
    ELSE <<>>

InputOccurrences(node) ==
    LET entries == ForInEntries(Get(node, "inputs"))
        IsCandidate(e) == e.val.t = "string" /\ e.val.v # "" /\ IsCandidateInput(e.k, e.val.v)
        kept == SelectSeq(entries, IsCandidate)
    IN [i \in 1..Len(kept) |-> Occurrence(kept[i].val.v, FALSE)]

WidgetOccurrences(node) ==
    LET wv == Get(node, "widgets_values")
        vals == IF wv.t = "array" THEN wv.v ELSE <<>>
        IsCandidate(val) == val.t = "string" /\ IsCandidateWidget(val.v)
        kept == SelectSeq(vals, IsCandidate)
    IN [i \in 1..Len(kept) |-> Occurrence(kept[i].v, FALSE)]

\* defined for the documents whose entries are all node records
Occurrences(d) ==
    IF IsSavedFormat(d)
    THEN LET nodes == Get(d, "nodes").v IN
         Flatten([n \in 1..Len(nodes) |->
                     TypeOccurrences(nodes[n], "type") \o WidgetOccurrences(nodes[n])])
    ELSE Flatten([n \in 1..Len(d.v) |->
                     TypeOccurrences(d.v[n].val, "class_type") \o InputOccurrences(d.v[n].val)])

IsNodeDocument(d) ==
    /\ d.t = "object"
    /\ IF IsSavedFormat(d)
       THEN \A n \in 1..Len(Get(d, "nodes").v) : Get(d, "nodes").v[n].t = "object"
       ELSE \A n \in 1..Len(d.v) : d.v[n].val.t = "object"

\* the positions of occ that hold a name for the first time
FirstPositions(occ) ==
    {i \in 1..Len(occ) : \A j \in 1..(i - 1) : occ[j].name # occ[i].name}

(* C21: the items scan returns are the first occurrences of the trimmed    *)
(* names, in the order of these first occurrences: there are as many items *)
(* as names, and the k-th item carries the name and the isNode flag of the *)
(* k-th position at which a name occurs for the first time, whether the    *)
(* name occurs again later as a node type, as a file value, or with other  *)
(* surrounding blanks.                                                     *)
C21_FirstOccurrenceWins ==
    (scanned.status = "ok" /\ IsNodeDocument(doc)) =>
        LET occ == Occurrences(doc)
            first == FirstPositions(occ)
        IN /\ Len(scanned.items) = Cardinality(first)
           /\ \A i \in first :
                 LET k == Cardinality({j \in first : j <= i}) IN
                 /\ scanned.items[k].rawName = occ[i].name
                 /\ scanned.items[k].isNode = occ[i].isNode

\* witness: a.safetensors was met first as a node type and then, with a
\* leading blank, as a file value; the one item is the node
C21_Witness ==
    /\ scanned.status = "ok"
    /\ doc = ApiDoc(<<5, 6>>)
    /\ Len(Occurrences(doc)) = 2
    /\ Cardinality(FirstPositions(Occurrences(doc))) = 1
    /\ scanned.items = <<[id |-> 1, rawName |-> "a.safetensors", isNode |-> TRUE]>>

(***************************************************************************)
(* Batch harness: the load pipeline over a workflow resolved in one call   *)
(* of the collaborator and one that needs two.                             *)
(***************************************************************************)
BatchFiles ==
    << [filename |-> "mine.json", content |-> SavedDoc(<<3>>)],
       [filename |-> "big.json", content |-> BigDoc(BATCH_SIZE + 1)] >>

NextBatch ==
    \/ \E i \in 1..Len(BatchFiles) : handleFileChange(BatchFiles[i])
    \/ \E l \in 1..Len(loads) : readerOnload(l)
    \/ \E l \in 1..Len(loads) : collaboratorResponds(l)
    \/ \E l \in 1..Len(loads) : collaboratorRejects(l)
    \/ tryAgain

SpecBatch == Init /\ [][NextBatch]_vars

\* the batches partition the items: consecutive, full but for the last
IsPartition(chunks, items) ==
    /\ Flatten(chunks) = items
    /\ \A k \in 1..Len(chunks) :
          /\ Len(chunks[k]) \in 1..BATCH_SIZE
          /\ k < Len(chunks) => Len(chunks[k]) = BATCH_SIZE

\* the batch of big.json that holds the item named rawName, 0 for none
BigItems == parseWorkflowData(BigDoc(BATCH_SIZE + 1), 0).items

BigBatchOf(rawName) ==
    LET at == {p \in 1..Len(BigItems) : BigItems[p].rawName = rawName}
    IN IF at = {} THEN 0 ELSE ((CHOOSE p \in at : TRUE) - 1) \div BATCH_SIZE + 1

\* resources of an earlier batch of big.json stand before those of a later one
InBatchOrder(rs) ==
    LET placed == {<<i, BigBatchOf(rs[i].rawName)>> : i \in 1..Len(rs)} IN
    \A p, q \in placed :
        (p[1] < q[1] /\ p[2] # 0 /\ q[2] # 0) => p[2] <= q[2]

(* C22: the items of a load are cut into consecutive batches of at most    *)
(* BATCH_SIZE in scan order; one call is outstanding per load, the first   *)
(* for batch 1, and the call for batch k+1 is issued by the step in which  *)
(* the call for batch k settles with a response, which appends the result  *)
(* of batch k to the results so far; when the last call settles the result *)
(* so built is the resource list, so resources of an earlier batch stand   *)
(* before those of a later one.                                            *)
C22_BatchesInOrder ==
    [][/\ \A l \in 1..Len(loads') :
             loads'[l].pc = "awaiting" =>
                /\ IsPartition(Chunks(loads'[l].items), loads'[l].items)
                /\ loads'[l].next \in 1..Len(Chunks(loads'[l].items))
       /\ \A l \in 1..Len(loads) :
             (loads[l].pc = "reading" /\ loads'[l].pc = "awaiting") =>
                loads'[l].next = 1 /\ loads'[l].allEnriched = <<>>
       /\ \A l \in 1..Len(loads) :
             (loads[l].pc = "awaiting" /\ loads'[l] # loads[l]) =>
                LET ld == loads[l]
                    chunk == Chunks(ld.items)[ld.next]
                    last == ld.next = Len(Chunks(ld.items))
                IN \/ /\ loads'[l] = DoneLoad(ld.filename)
                      /\ appState' = ERROR
                      /\ resources' = resources
                   \/ \E i \in 1..Len(Replies(chunk)) :
                         LET all == ld.allEnriched \o MergeChunk(chunk, Replies(chunk)[i], uuids) IN
                         IF last
                         THEN loads'[l] = DoneLoad(ld.filename) /\ resources' = all
                         ELSE /\ loads'[l] = AwaitingLoad(ld.filename, ld.items, ld.next + 1, all)
                              /\ resources' = resources
       /\ resources' # resources => InBatchOrder(resources')]_vars

\* witness: big.json was resolved in two calls; the list holds the twenty
\* resources of the first batch and then the one of the second
C22_Witness ==
    /\ appState = REVIEW
    /\ Len(resources) = BATCH_SIZE + 1
    /\ \A i \in 1..BATCH_SIZE : BigBatchOf(resources[i].rawName) = 1
    /\ BigBatchOf(resources[BATCH_SIZE + 1].rawName) = 2

(***************************************************************************)
(* The file values of an execution-form document: the string values of the *)
(* nodes' inputs under a file-parameter key or with a model-file ending.   *)
(***************************************************************************)
ModelFileEndings == {".safetensors", ".ckpt", ".pt", ".pth"}

IsFileValue(e) ==
    /\ e.val.t = "string"
    /\ \/ e.k \in fileKeys
       \/ \E x \in ModelFileEndings : EndsWith(ToLowerCase(e.val.v), x)

FileValues(d) ==
    UNION {{ApiInputs(d, n)[e].val.v :
               e \in {x \in 1..Len(ApiInputs(d, n)) : IsFileValue(ApiInputs(d, n)[x])}} :
           n \in 1..Len(d.v)}

FileItems(items) == {items[k].rawName : k \in {k \in 1..Len(items) : ~items[k].isNode}}

(* C23 as stated: in an execution-form document the isNode = false items   *)
(* are exactly the (trimmed) file values.                                  *)
C23_Original ==
    (scanned.status = "ok" /\ IsApiDocument(doc)) =>
        FileItems(scanned.items) = {Trim(v) : v \in FileValues(doc)}

(* C23 amended: every isNode = false item is the trimmed text of a file    *)
(* value that is not empty, so a link, a number or another string gives    *)
(* none; and every file value that is not empty is an item under its       *)
(* trimmed text, with isNode = false unless that text occurred earlier in  *)
(* traversal order as a non-core class_type, whose isNode = true item is   *)
(* kept.  The document of the example gives the one item v1-5-pruned.ckpt  *)
(* with isNode = false.                                                    *)
C23_FileValuesExtracted ==
    /\ (scanned.status = "ok" /\ IsApiDocument(doc)) =>
          /\ FileItems(scanned.items) \subseteq {Trim(v) : v \in FileValues(doc) \ {""}}
          /\ \A n \in 1..Len(doc.v) : \A e \in 1..Len(ApiInputs(doc, n)) :
                LET ent == ApiInputs(doc, n)[e] IN
                (IsFileValue(ent) /\ ent.val.v # "") =>
                    \/ Trim(ent.val.v) \in FileItems(scanned.items)
                    \/ /\ ItemNamed(scanned.items, Trim(ent.val.v), TRUE)
                       /\ \E m \in 1..n : TypeOccurrence(doc, m, Trim(ent.val.v))
    /\ (scanned # NotRun /\ doc = CheckpointExample) =>
          /\ scanned.status = "ok"
          /\ Len(scanned.items) = 1
          /\ scanned.items[1].rawName = "v1-5-pruned.ckpt"
          /\ ~scanned.items[1].isNode

\* witness: the document of the example was scanned into its one item
C23_Witness ==
    /\ doc = CheckpointExample
    /\ scanned.status = "ok"
    /\ FileValues(doc) = {"v1-5-pruned.ckpt"}
    /\ FileItems(scanned.items) = {"v1-5-pruned.ckpt"}

(***************************************************************************)
(* Commit harness: a sample is loaded and resolved, its URLs are edited,   *)
(* the script is previewed and committed, the history viewed and cleared.  *)
(***************************************************************************)
NextCommit ==
    \/ \E i \in 1..Len(SAMPLE_WORKFLOWS) : loadSample(SAMPLE_WORKFLOWS[i])
    \/ \E l \in 1..Len(loads) : collaboratorResponds(l)
    \/ \E id \in Ids(resources) : \E c \in 1..Len(EditChoices) :
          handleUpdate(id, EditChoices[c].field, EditChoices[c].value)
    \/ onGenerateScript
    \/ onClose
    \/ proceedAnyway
    \/ iHaveReviewed
    \/ handleCopyOrDownload
    \/ onViewHistory
    \/ onCloseHistory
    \/ clearHistory

SpecCommit == Init /\ [][NextCommit]_vars

\* the entries of hs, oldest last, without their dateAdded
IsSuffix(old, new) ==
    /\ Len(old) <= Len(new)
    /\ SubSeq(new, Len(new) - Len(old) + 1, Len(new)) = old

\* the resources of rs a commit on the history hs accepts, in list order
Accepted(hs, rs) ==
    LET Fresh(r) == /\ r.downloadUrl # ""
                    /\ \A k \in 1..Len(hs) : hs[k].downloadUrl # r.downloadUrl
    IN SelectSeq(rs, Fresh)

(* C24: a commit leaves the entries the history had in place, as the tail  *)
(* of the new history, and puts before them one entry for each committed   *)
(* resource whose downloadUrl is neither empty nor the downloadUrl of an    *)
(* entry the history had, in list order; the stored history is written     *)
(* with the same entries.  A step that is not a commit changes the history *)
(* only by removing all of its entries, in memory and in the store, and    *)
(* that step is the Clear History button.                                  *)
C24_AddKeepsEntries ==
    [][/\ commits' # commits =>
             LET acc == Accepted(history, resources)
                 n == Len(acc)
             IN /\ IsSuffix(history, history')
                /\ Len(history') = n + Len(history)
                /\ \A k \in 1..n :
                      /\ history'[k].downloadUrl = acc[k].downloadUrl
                      /\ history'[k].id = acc[k].id
                      /\ history'[k].rawName = acc[k].rawName
                /\ stored' = Present(history')
       /\ (commits' = commits /\ (history' # history \/ stored' # stored)) =>
             /\ showHistoryModal
             /\ history' = <<>>
             /\ stored' = Absent]_vars

\* witness: a second commit kept the two entries of the first one at the
\* end, put the entry of the edited resource before them and dropped the
\* resource the history already knew
C24_Witness ==
    /\ commits = 2
    /\ Len(resources) = 2
    /\ Len(history) = 3
    /\ history[1].dateAdded = 2
    /\ history[2].dateAdded = 1
    /\ history[3].dateAdded = 1
    /\ \E i \in 1..2 : resources[i].downloadUrl = history[3].downloadUrl
    /\ stored = Present(history)

(***************************************************************************)
(* The plan of a script: its clone, fetch and post-clone commands in the   *)
(* order of the text, each with the conditions of the conditionals around  *)
(* it, written without the syntax of the dialect.                          *)
(***************************************************************************)
Slashes(path) == ReplaceAll(path, "\\", "/")

\* the test of a conditional's opening line
ConditionOf(fmt, line) ==
    LET t == TrimStart(line) IN
    IF fmt = "bash"
    THEN IF StartsWith(t, "if [ ! -d \"") \/ StartsWith(t, "if [ ! -f \"")
         THEN <<"absent", Between(t, "\"", "\"")>>
         ELSE IF StartsWith(t, "if [ -d \"") \/ StartsWith(t, "if [ -f \"")
         THEN <<"present", Between(t, "\"", "\"")>>
         ELSE IF t = "if [ $? -ne 0 ]; then" THEN <<"failed", "">>
         ELSE <<"other", t>>
    ELSE IF StartsWith(t, "if not exist \"")
         THEN <<"absent", Slashes(Between(t, "\"", "\""))>>
         ELSE IF StartsWith(t, "if exist \"")
         THEN <<"present", Slashes(Between(t, "\"", "\""))>>
         ELSE IF t = "if %ERRORLEVEL% NEQ 0 (" THEN <<"failed", "">>
         ELSE <<"other", t>>

\* the command of a line: what it acquires or which post-clone step it is
CommandOf(fmt, line) ==
    LET t == TrimStart(line) IN
    IF IsClone(line) THEN <<"clone", Between(t, "\"", "\"")>>
    ELSE IF IsFetch(fmt, line)
    THEN IF fmt = "bash"
         THEN <<"fetch", Between(From(t, IndexOf(t, "\" \"") + 2), "\"", "\""),
                TargetOf(fmt, line)>>
         ELSE <<"fetch", Between(t, "-Uri '", "'"), Slashes(TargetOf(fmt, line))>>
    ELSE IF t = "git submodule update --init --recursive" THEN <<"submodules">>
    ELSE IF t \in {"pip install -r requirements.txt", "%PIP_EXE% install -r requirements.txt"}
    THEN <<"requirements">>
    ELSE IF t \in {"python install.py", "%PYTHON_EXE% install.py"} THEN <<"install.py">>
    ELSE <<>>

Plan(lines, fmt) ==
    LET IsCommand(n) == CommandOf(fmt, lines[n]) # <<>>
        at == SelectSeq([n \in 1..Len(lines) |-> n], IsCommand)
    IN [k \in 1..Len(at) |->
          [command |-> CommandOf(fmt, lines[at[k]]),
           guards |-> [e \in 1..Len(Nesting(lines, fmt, at[k])) |->
                          <<ConditionOf(fmt, lines[Nesting(lines, fmt, at[k])[e].opener]),
                            Nesting(lines, fmt, at[k])[e].branch>>]]]

(* C25: for every resource list the POSIX script and the batch script have *)
(* the same plan: the same clone, fetch and post-clone commands in the     *)
(* same order, each under the same conditions (the absence of its target   *)
(* for an acquisition; the presence of the repository folder and of its    *)
(* manifest for a post-clone step).                                        *)
C25_DialectsAgree ==
    script # NotRun =>
        Plan(generateScript(sResources, "bash", Today), "bash")
            = Plan(generateScript(sResources, "bat", Today), "bat")

(* C26: the history in memory and the stored history change only in a      *)
(* commit step (copy or download of the script) or in a clear, which       *)
(* empties both: no load, scan, reply of the collaborator, edit, drag,     *)
(* preview or change of dialect writes them.  A commit step starts with    *)
(* the script modal open and the review confirmed, and with the warning    *)
(* flag cleared when a resource of the list fails validation; the review   *)
(* is confirmed only by I Have Reviewed in the review-required view, and   *)
(* the flag of an open modal is cleared only by Proceed Anyway in the      *)
(* warning view.                                                           *)
C26_HistoryWrittenByCommitOnly ==
    [][/\ (history' # history \/ stored' # stored) =>
             \/ commits' = commits + 1
             \/ showHistoryModal /\ history' = <<>> /\ stored' = Absent
       /\ commits' # commits =>
             /\ showScriptModal
             /\ confirmed
             /\ validationErrors # <<>> => ~showValidationWarning
       /\ (~confirmed /\ confirmed') => ReviewRequiredShown
       /\ (showScriptModal' /\ showValidationWarning /\ ~showValidationWarning')
             => WarningShown]_vars

\* witness: a script with a resource that fails validation was committed
\* after the warning and the review, and its entry is in the history
C26_Witness ==
    /\ commits = 1
    /\ showScriptModal
    /\ confirmed
    /\ ~showValidationWarning
    /\ history # <<>>
    /\ stored = Present(history)
    /\ validationErrors # <<>>

\* the names scan finds in the loadable document(s) called filename
ScannedNames(filename) ==
    LET files == SAMPLE_WORKFLOWS \o UserFiles
        named == {i \in 1..Len(files) : files[i].filename = filename}
        NamesIn(items) == {items[k].rawName : k \in 1..Len(items)}
    IN UNION {NamesIn(parseWorkflowData(files[i].content, 0).items) : i \in named}

(* C27: whenever the application shows REVIEW, the resources listed come   *)
(* from the document whose filename the metadata line shows: each resource *)
(* carries a name scanned from that document, or the name of a guess the   *)
(* collaborator added on its own.                                          *)
C27_MetadataOfSameDocument ==
    appState = REVIEW =>
        \A i \in 1..Len(resources) :
            resources[i].rawName \in
                ScannedNames(metadata.filename) \cup {Str(Get(ForeignGuess, "rawName"))}

\* a line that closes a compound command of the shell with a token other
\* than `fi`
ForeignCloser(line) == TrimStart(line) \in {"}", ")", "done", "esac"}

\* every `if ... then` of the block is closed by its own `fi` inside the
\* block, and nothing else closes anything
WellFormedBlock(block) ==
    LET depths == Depths(Kinds(block, "bash")) IN
    /\ \A k \in 1..Len(block) : depths[k] >= 0 /\ ~ForeignCloser(block[k])
    /\ Len(block) > 0 => depths[Len(block)] = 0

(* C28: every per-resource block of the emitted POSIX script is            *)
(* well-formed: each conditional opened with `if ... then` is closed by a  *)
(* matching `fi` and by no other closing token before the block ends, so   *)
(* the nesting depth is zero at the end of every block.                    *)
C28_BlocksWellFormed ==
    (script # NotRun /\ sFormat = "bash") =>
        LET blocks == BlocksOf(script.lines, "bash") IN
        \A b \in 1..Len(blocks) : WellFormedBlock(blocks[b])

(* C29: scan is total on well-formed JSON: for every document that parses  *)
(* (null, a scalar, an array, a mapping with entries that are null or not  *)
(* node records included) it returns a sequence of items, possibly empty,  *)
(* and fails only when the text is not well-formed.                        *)
C29_ScanTotalOnJson ==
    scanned # NotRun =>
        /\ doc # Invalid => scanned.status = "ok"
        /\ scanned.status = "error" => scanned.message = "Invalid JSON format"

(***************************************************************************)
(* The load pipeline when every call to the collaborator settles: the      *)
(* promise of generateContent awaited by an invocation is resolved or      *)
(* rejected in the end.  Nothing is assumed of the reviewer or of the file *)
(* reader.                                                                 *)
(***************************************************************************)
collaboratorSettles(l) ==
    /\ l \in 1..Len(loads)
    /\ collaboratorResponds(l) \/ collaboratorRejects(l)

SpecSettle ==
    /\ Init
    /\ [][NextResolve]_vars
    /\ \A l \in 1..MaxLoads : WF_vars(collaboratorSettles(l))

Analysing == appState \in {ANALYZING_LOCAL, ANALYZING_AI}

Suspended(l) == l \in 1..Len(loads) /\ loads[l].pc = "awaiting"

Returned(l) == l \in 1..Len(loads) /\ loads[l].pc = "done"

(* C30: provided each collaborator call returns or fails in the end, every *)
(* invocation of handleFileLoaded suspended on the collaborator returns,   *)
(* the step that ends an invocation leaves the application in REVIEW or    *)
(* ERROR, an analysing view is always followed by REVIEW or ERROR, and in  *)
(* ERROR the reviewer can go back to IDLE with Try Again.                  *)
C30_EveryLoadSettles ==
    /\ \A l \in 1..MaxLoads : Suspended(l) ~> Returned(l)
    /\ [][\A l \in 1..Len(loads) :
             (loads[l].pc # "done" /\ loads'[l].pc = "done")
                 => appState' \in {REVIEW, ERROR}]_vars
    /\ Analysing ~> (appState \in {REVIEW, ERROR})
    /\ [](appState = ERROR => ENABLED (tryAgain /\ appState' = IDLE))

\* witness: the two batches of big.json were answered and listed, the call
\* for mine.json failed, and the reviewer went back from ERROR to IDLE
C30_Witness ==
    /\ appState = IDLE
    /\ errorMsg = "generateContent failed"
    /\ Len(loads) = 2
    /\ loads[1].filename = "big.json" /\ loads[2].filename = "mine.json"
    /\ Returned(1) /\ Returned(2)
    /\ Len(resources) = BATCH_SIZE + 1

=============================================================================
